---- MODULE Spec2Model ----
(***************************************************************************)
(* ps-hkey: content-addressed Hkeys, the long-blob tree and the stores.    *)
(*                                                                         *)
(* Byte strings are kept as sequences of runs <<src, off, len>>: the len   *)
(* bytes src[off .. off+len) of a source.  Slicing and concatenation, the  *)
(* only byte operations of the code, are exact on runs, so the program's   *)
(* own sizes (4096, 65536, ...) are used unscaled.  Sources >= 1 are caller *)
(* payloads whose bytes are pairwise distinct, source 0 is the cipher's    *)
(* header, negative sources are the characters of Hkey text.               *)
(*                                                                         *)
(* A digest is the index of its content in the digest table dg, an         *)
(* injective function that is revealed as contents are hashed.             *)
(***************************************************************************)
EXTENDS Integers, Sequences, FiniteSets, TLC

\* ------------------------------------------------------------ constants
HASH_SIZE == 64
HASH_SIZE_COMPACT == 48
DOUBLE_HASH_SIZE == HASH_SIZE * 2
HASH_SIZE_PREFIXED == HASH_SIZE + 1
DOUBLE_HASH_SIZE_PREFIXED == DOUBLE_HASH_SIZE + 1
MAX_SIZE_RAW == HASH_SIZE_COMPACT - 1
MAX_SIZE_BASE64 == (MAX_SIZE_RAW \div 3) * 4
DOUBLE_HASH_SIZE_COMPACT == 2 * HASH_SIZE_COMPACT
MAX_DECRYPTED_SIZE == 4096
MAX_ENCRYPTED_SIZE == 4629
LHKEY_SEGMENT_MAX_LENGTH_LOG2 == 12
LHKEY_SEGMENT_MAX_LENGTH == 2 ^ LHKEY_SEGMENT_MAX_LENGTH_LOG2
LHKEY_PART_COUNT_LOG2 == 4
LHKEY_LEVEL_MAX_LENGTH_LOG2 == LHKEY_SEGMENT_MAX_LENGTH_LOG2 + LHKEY_PART_COUNT_LOG2
LHKEY_LEVEL_MAX_LENGTH == 2 ^ LHKEY_LEVEL_MAX_LENGTH_LOG2
\* usize::BITS; TLC's integers are 32 bits wide, every size of the model is far below.
USIZE_BITS == 64

VARIABLES
    overflow_checks,  \* the build: arithmetic overflow panics (debug) or wraps (release)
    kind,             \* the store under test: "default" (Store::put) or "in_memory"
    store,            \* the store: digest table dg and the map from hash to chunk
    root,             \* the long node being updated
    last,             \* the last operation: its name, inputs, result and the store before
    ops,              \* operations performed
    stores,           \* MixedStoreInner::stores, the sync backends in declaration order
    async_stores,     \* MixedStoreInner::async_stores, the async backends
    call,             \* the last call on the composite store and its promise
    conv              \* an Hkey or a byte string and its rounds of format and parse

\* let r = v; K(r): the value is computed once and named by the parameter of K
Bind(v, K(_)) == K(v)

Min(a, b) == IF a <= b THEN a ELSE b
Max(a, b) == IF a >= b THEN a ELSE b
DivCeil(a, b) == (a + b - 1) \div b

\* ------------------------------------------------------------ byte strings
HeaderSrc == 1 - 1
CharSrc == 0 - 1
NumSrc == 0 - 2
HashSrc == 0 - 3
GarbageSrc == 0 - 4
\* the base64 text of the bytes held in place of the offset
B64Src == 0 - 5
CompactSrc == 0 - 6

\* characters of the unpadded base64 text of n bytes
B64Chars(n) == (4 * n + 2) \div 3

RECURSIVE SumLen(_, _, _)
SumLen(b, lo, hi) ==
    IF lo > hi THEN 0
    ELSE IF lo = hi THEN b[lo][3]
    ELSE SumLen(b, lo, (lo + hi) \div 2) + SumLen(b, (lo + hi) \div 2 + 1, hi)

\* b.len()
BLen(b) == SumLen(b, 1, Len(b))

\* a ++ b, adjacent runs of one payload joined
Cat(a, b) ==
    IF a = <<>> THEN b
    ELSE IF b = <<>> THEN a
    ELSE LET x == a[Len(a)]
             y == b[1]
         IN  IF x[1] = y[1] /\ x[1] >= 1 /\ x[2] + x[3] = y[2]
             THEN SubSeq(a, 1, Len(a) - 1) \o <<<<x[1], x[2], x[3] + y[3]>>>> \o Tail(b)
             ELSE a \o b

\* &b[s..e] for 0 <= s <= e <= BLen(b)
RECURSIVE Slice(_, _, _)
Slice(b, s, e) ==
    IF b = <<>> \/ e <= 0 THEN <<>>
    ELSE LET r == Head(b)
             l == r[3]
         IN  IF s >= l THEN Slice(Tail(b), s - l, e - l)
             ELSE LET a == Max(s, 0)
                      z == Min(e, l)
                  IN  (IF z <= a THEN <<>>
                       ELSE IF r[1] = B64Src THEN <<<<GarbageSrc, 0, z - a>>>>
                       ELSE <<<<r[1], r[2] + a, z - a>>>>)
                          \o Slice(Tail(b), 0, e - l)

\* the n bytes of payload src
Blob(src, n) == IF n = 0 THEN <<>> ELSE <<<<src, 0, n>>>>

\* ------------------------------------------------------------ results
Ok(st, v) == [ok |-> TRUE, err |-> "", st |-> st, val |-> v]
Err(st, e) == [ok |-> FALSE, err |-> e, st |-> st, val |-> <<>>]

\* ------------------------------------------------------------ hash and cipher
EmptyStore == [dg |-> <<>>, map |-> <<>>]

IndexOf(dg, c) ==
    IF \E i \in 1..Len(dg) : dg[i] = c
    THEN CHOOSE i \in 1..Len(dg) : dg[i] = c
    ELSE 0

\* ps_hash::hash: the digest of c, dg extended when c is hashed for the first time
hash(dg, c) ==
    IF IndexOf(dg, c) = 0
    THEN [dg |-> Append(dg, c), h |-> Len(dg) + 1]
    ELSE [dg |-> dg, h |-> IndexOf(dg, c)]

EncryptOverhead == MAX_ENCRYPTED_SIZE - MAX_DECRYPTED_SIZE
HeaderRun == <<HeaderSrc, 0, EncryptOverhead>>

\* ps_cypher::validate
validate(b) == b # <<>> /\ b[1] = HeaderRun

\* DataChunk::encrypt: convergent, the key is the digest of the plaintext
encrypt(dg, p) ==
    LET k == hash(dg, p)
        c == <<HeaderRun>> \o p
        h == hash(k.dg, c)
    IN  [dg |-> h.dg, data |-> c, hash |-> h.h, key |-> k.h]

\* DataChunk::decrypt
decrypt(dg, c, k) ==
    IF validate(c) /\ k \in 1..Len(dg) /\ dg[k] = Tail(c)
    THEN [ok |-> TRUE, err |-> "", val |-> Tail(c)]
    ELSE [ok |-> FALSE, err |-> "PsDataChunkError", val |-> <<>>]

\* an insert that forgets the entries already in the map
HashMapInsert_Drop(map, h, c) == [x \in {h} |-> c]
\* HashMap::insert
HashMapInsert(map, h, c) ==
    [x \in (DOMAIN map) \cup {h} |-> IF x = h THEN c ELSE map[x]]

\* Store::put_encrypted of a backend that keeps a map from hash to chunk
put_encrypted(st, c) ==
    LET h == hash(st.dg, c)
    IN  [dg |-> h.dg, map |-> HashMapInsert(st.map, h.h, c)]

\* InMemoryStore::get
get(st, h) ==
    IF h \in DOMAIN st.map
    THEN [ok |-> TRUE, err |-> "", val |-> st.map[h]]
    ELSE [ok |-> FALSE, err |-> "NotFound", val |-> <<>>]

\* ------------------------------------------------------------ Hkey
EmptyNode == [depth |-> 0, size |-> 0, parts |-> <<>>]
new(depth, size, parts) == [depth |-> depth, size |-> size, parts |-> parts]
Part(start, end, hkey) == [start |-> start, end |-> end, hkey |-> hkey]

Hkey(tag, data, h, k, items, node) ==
    [tag |-> tag, data |-> data, hash |-> h, key |-> k, items |-> items, node |-> node]
Raw(b) == Hkey("Raw", b, 0, 0, <<>>, EmptyNode)
Base64(t) == Hkey("Base64", t, 0, 0, <<>>, EmptyNode)
Direct(h) == Hkey("Direct", <<>>, h, 0, <<>>, EmptyNode)
Encrypted(h, k) == Hkey("Encrypted", <<>>, h, k, <<>>, EmptyNode)
ListRef(h, k) == Hkey("ListRef", <<>>, h, k, <<>>, EmptyNode)
List(xs) == Hkey("List", <<>>, 0, 0, xs, EmptyNode)
LongHkey(h, k) == Hkey("LongHkey", <<>>, h, k, <<>>, EmptyNode)
LongHkeyExpanded(n) == Hkey("LongHkeyExpanded", <<>>, 0, 0, <<>>, n)

\* ------------------------------------------------------------ Hkey text
CharComma == 44
CharDash == 45
CharColon == 58
CharSemi == 59
CharB == 66
CharD == 68
CharE == 69
CharL == 76
CharLBracket == 91
CharRBracket == 93
CharLBrace == 123
CharRBrace == 125

Ch(c) == <<<<CharSrc, c, 1>>>>

RECURSIVE Digits(_)
Digits(n) == IF n < 0 THEN 20 ELSE IF n < 10 THEN 1 ELSE 1 + Digits(n \div 10)

\* the decimal text of n
NumText(n) == <<<<NumSrc, n, Digits(n)>>>>
\* Hash::to_string
HashText(h) == <<<<HashSrc, h, HASH_SIZE>>>>

\* bytes that are text (the payloads of callers are arbitrary bytes, not UTF-8)
IsUtf8(b) == \A i \in 1..Len(b) : b[i][1] < 0

\* ps_base64::encode
Base64Encode(b) == IF b = <<>> THEN <<>> ELSE <<<<B64Src, b, B64Chars(BLen(b))>>>>

\* ps_base64::decode: the encoded bytes of a text that encode() wrote, and
\* other bytes of the decoded length for any other text
Base64Decode(t) ==
    IF Len(t) = 1 /\ t[1][1] = B64Src /\ t[1][3] = B64Chars(BLen(t[1][2])) THEN t[1][2]
    ELSE IF (3 * BLen(t)) \div 4 = 0 THEN <<>>
    ELSE <<<<GarbageSrc, 0, (3 * BLen(t)) \div 4>>>>

RECURSIVE HkeyToString(_)
RECURSIVE format_list(_)
RECURSIVE PartsToString(_, _)

\* Display for LongHkeyExpanded
NodeToString(n) ==
    Ch(CharLBrace) \o NumText(n.depth) \o Ch(CharSemi) \o NumText(n.size) \o Ch(CharSemi)
        \o PartsToString(n.parts, 1) \o Ch(CharRBrace)

PartsToString(parts, i) ==
    IF i > Len(parts) THEN <<>>
    ELSE (IF i = 1 THEN <<>> ELSE Ch(CharComma))
            \o NumText(parts[i].start) \o Ch(CharDash) \o NumText(parts[i].end - 1)
            \o Ch(CharColon) \o HkeyToString(parts[i].hkey)
            \o PartsToString(parts, i + 1)

format_list(list) ==
    IF list = <<>> THEN Ch(CharLBracket) \o Ch(CharRBracket)
    ELSE LET RECURSIVE rest(_)
             rest(i) == IF i > Len(list) THEN <<>>
                        ELSE Ch(CharComma) \o HkeyToString(list[i]) \o rest(i + 1)
         IN  Ch(CharLBracket) \o HkeyToString(list[1]) \o rest(2) \o Ch(CharRBracket)

\* From<&Hkey> for String
HkeyToString(hk) ==
    CASE hk.tag = "Raw" -> Ch(CharB) \o Base64Encode(hk.data)
      [] hk.tag = "Base64" -> Ch(CharB) \o hk.data
      [] hk.tag = "Direct" -> HashText(hk.hash)
      [] hk.tag = "Encrypted" -> Ch(CharE) \o HashText(hk.hash) \o HashText(hk.key)
      [] hk.tag = "ListRef" -> Ch(CharL) \o HashText(hk.hash) \o HashText(hk.key)
      [] hk.tag = "List" -> format_list(hk.items)
      [] hk.tag = "LongHkey" -> Ch(CharL) \o HashText(hk.hash) \o HashText(hk.key)
      [] hk.tag = "LongHkeyExpanded" -> NodeToString(hk.node)

\* ------------------------------------------------------------ parsing
POk(hk) == [ok |-> TRUE, err |-> "", val |-> hk]
PErr(e) == [ok |-> FALSE, err |-> e, val |-> Raw(<<>>)]

FirstIs(t, c) == t # <<>> /\ t[1] = <<CharSrc, c, 1>>
LastIs(t, c) == t # <<>> /\ t[Len(t)] = <<CharSrc, c, 1>>

\* slice::split / str::split on the character c
SplitOn(t, c) ==
    LET at == {i \in 1..Len(t) : t[i] = <<CharSrc, c, 1>>}
        sep(k) == IF k = 0 THEN 0
                  ELSE IF k > Cardinality(at) THEN Len(t) + 1
                  ELSE CHOOSE i \in at : Cardinality({j \in at : j < i}) = k - 1
    IN  [k \in 1..(Cardinality(at) + 1) |-> SubSeq(t, sep(k - 1) + 1, sep(k) - 1)]

\* str::split_once: the position of the first c, 0 when there is none
FindChar(t, c) ==
    IF \E i \in 1..Len(t) : t[i] = <<CharSrc, c, 1>>
    THEN CHOOSE i \in 1..Len(t) :
            t[i] = <<CharSrc, c, 1>> /\ \A j \in 1..(i - 1) : t[j] # <<CharSrc, c, 1>>
    ELSE 0

\* str::parse::<usize>
IsNum(t) == Len(t) = 1 /\ t[1][1] = NumSrc /\ t[1][2] >= 0
\* Hash::try_from
IsHash(t) == Len(t) = 1 /\ t[1][1] = HashSrc

from_base64_slice(value) == IF IsUtf8(value) THEN Base64(value) ELSE Raw(value)

try_as_direct(t) == IF IsHash(t) THEN POk(Direct(t[1][2])) ELSE PErr("HashError")

\* split_at(HASH_SIZE) of a text of DOUBLE_HASH_SIZE characters
try_parse_encrypted(t) == Len(t) = 2 /\ IsHash(<<t[1]>>) /\ IsHash(<<t[2]>>)

try_as_encrypted(t) ==
    IF try_parse_encrypted(t) THEN POk(Encrypted(t[1][2], t[2][2])) ELSE PErr("HashError")

\* a list reference read as an Encrypted
try_as_list_ref_Encrypted(t) == try_as_encrypted(t)

try_as_list_ref(t) ==
    IF try_parse_encrypted(t) THEN POk(ListRef(t[1][2], t[2][2])) ELSE PErr("HashError")

RECURSIVE try_parse(_)
RECURSIVE parse(_)
RECURSIVE ParseItems(_)
RECURSIVE ParseParts(_)

\* the items of a list, each through parse; a panic of one is the panic of all
ParseItems(ts) ==
    IF ts = <<>> THEN POk(<<>>)
    ELSE Bind(parse(Head(ts)), LAMBDA x :
            IF ~x.ok THEN x
            ELSE Bind(ParseItems(Tail(ts)), LAMBDA r :
                    IF ~r.ok THEN r ELSE POk(<<x.val>> \o r.val)))

try_as_list(list) ==
    IF BLen(list) = 1 THEN PErr("panic")
    ELSE IF ~FirstIs(list, CharLBracket) \/ ~LastIs(list, CharRBracket) THEN PErr("FormatError")
    ELSE Bind(ParseItems(SplitOn(SubSeq(list, 2, Len(list) - 1), CharComma)), LAMBDA items :
            IF items.ok THEN POk(List(items.val)) ELSE items)

\* range.split_once('-') and the two numbers parsed, of the range of an entry
ParseRange(range, dash, hkey) ==
    IF dash = 0 THEN PErr("FormatError")
    ELSE IF ~IsNum(SubSeq(range, 1, dash - 1)) \/ ~IsNum(SubSeq(range, dash + 1, Len(range)))
    THEN PErr("ParseIntError")
    ELSE Bind(parse(hkey), LAMBDA hk :
            IF hk.ok
            THEN POk(Part(range[dash - 1][2], range[dash + 1][2] + 1, hk.val))
            ELSE hk)

\* part.split_once(':') of one "start-end:hkey" entry of a node text
SplitPart(t, colon) ==
    IF colon = 0 THEN PErr("FormatError")
    ELSE Bind(SubSeq(t, 1, colon - 1), LAMBDA range :
            ParseRange(range, FindChar(range, CharDash), SubSeq(t, colon + 1, Len(t))))

\* one "start-end:hkey" entry of a node text
ParsePart(t) == SplitPart(t, FindChar(t, CharColon))

ParseParts(ts) ==
    IF ts = <<>> THEN POk(<<>>)
    ELSE Bind(ParsePart(Head(ts)), LAMBDA x :
            IF ~x.ok THEN x
            ELSE Bind(ParseParts(Tail(ts)), LAMBDA r :
                    IF r.ok THEN POk(<<x.val>> \o r.val) ELSE r))

\* LongHkey::expand_from_lhkey_str
expand_from_lhkey_str(expanded_data) ==
    IF BLen(expanded_data) < 6 THEN PErr("FormatError")
    ELSE IF ~FirstIs(expanded_data, CharLBrace) \/ ~LastIs(expanded_data, CharRBrace)
    THEN PErr("FormatError")
    ELSE Bind(SubSeq(expanded_data, 2, Len(expanded_data) - 1), LAMBDA parts_data :
            IF ~IsUtf8(parts_data) THEN PErr("Utf8Error")
            ELSE Bind(SplitOn(parts_data, CharSemi), LAMBDA parts :
                    IF Len(parts) # 3 THEN PErr("FormatError")
                    ELSE IF ~IsNum(parts[1]) \/ ~IsNum(parts[2]) THEN PErr("ParseIntError")
                    ELSE Bind(ParseParts(SplitOn(parts[3], CharComma)), LAMBDA ps :
                            IF ps.ok
                            THEN [ok |-> TRUE, err |-> "",
                                  val |-> new(parts[1][1][2], parts[2][1][2], ps.val)]
                            ELSE [ok |-> FALSE, err |-> ps.err, val |-> EmptyNode])))

try_as_long(lhkey_str) ==
    Bind(expand_from_lhkey_str(lhkey_str), LAMBDA lhkey :
        IF lhkey.ok THEN POk(LongHkeyExpanded(lhkey.val)) ELSE PErr(lhkey.err))

try_parse(bytes) ==
    IF bytes = <<>> THEN POk(Base64(<<>>))
    ELSE IF BLen(bytes) = HASH_SIZE THEN try_as_direct(bytes)
    ELSE IF BLen(bytes) = DOUBLE_HASH_SIZE THEN try_as_encrypted(bytes)
    ELSE IF FirstIs(bytes, CharD) /\ BLen(bytes) = HASH_SIZE_PREFIXED
    THEN try_as_direct(Tail(bytes))
    ELSE IF FirstIs(bytes, CharE) /\ BLen(bytes) = DOUBLE_HASH_SIZE_PREFIXED
    THEN try_as_encrypted(Tail(bytes))
    ELSE IF FirstIs(bytes, CharL) /\ BLen(bytes) = DOUBLE_HASH_SIZE_PREFIXED
    THEN try_as_list_ref(Tail(bytes))
    ELSE IF FirstIs(bytes, CharLBracket) THEN try_as_list(bytes)
    ELSE IF FirstIs(bytes, CharLBrace) THEN try_as_long(bytes)
    ELSE POk(from_base64_slice(bytes))

\* Hkey::parse; a panic inside try_parse is not caught
parse(value) ==
    Bind(try_parse(value), LAMBDA r :
        IF r.ok \/ r.err = "panic" THEN r ELSE POk(from_base64_slice(value)))

\* ------------------------------------------------------------ resolve
ROk(v, f) == [ok |-> TRUE, err |-> "", val |-> v, fetched |-> f, n |-> 0]
RErr(e, f) == [ok |-> FALSE, err |-> e, val |-> <<>>, fetched |-> f, n |-> 0]
RangeError(n, f) == [ok |-> FALSE, err |-> "RangeError", val |-> <<>>, fetched |-> f, n |-> n]
\* the result r of a resolver that had fetched the chunks f before it ran
Fetched(f, r) == [r EXCEPT !.fetched = r.fetched \cup f]
\* the bytes of x followed by the bytes of r
Extend(x, r) == ROk(Cat(x.val, r.val), x.fetched \cup r.fetched)

\* recursion deeper than MaxResolveDepth hops overflows the stack
MaxResolveDepth == 32

resolve_encrypted(s, h, k) ==
    Bind(get(s, h), LAMBDA encrypted :
        IF ~encrypted.ok THEN RErr(encrypted.err, {h})
        ELSE Bind(decrypt(s.dg, encrypted.val, k), LAMBDA decrypted :
                IF ~decrypted.ok THEN RErr(decrypted.err, {h}) ELSE ROk(decrypted.val, {h})))

\* LongHkey::expand
expand(s, h, k) ==
    Bind(get(s, h), LAMBDA encrypted :
        IF ~encrypted.ok THEN [ok |-> FALSE, err |-> encrypted.err, val |-> EmptyNode]
        ELSE Bind(decrypt(s.dg, encrypted.val, k), LAMBDA lhkey_str :
                IF ~lhkey_str.ok THEN [ok |-> FALSE, err |-> lhkey_str.err, val |-> EmptyNode]
                ELSE expand_from_lhkey_str(lhkey_str.val)))

\* the node of a long Hkey: expanded from the store, or held by the Hkey
Expanded(s, hk) ==
    IF hk.tag = "LongHkey" THEN expand(s, hk.hash, hk.key)
    ELSE [ok |-> TRUE, err |-> "", val |-> hk.node]
\* the chunk fetched to expand a long Hkey
FetchedBy(hk) == IF hk.tag = "LongHkey" THEN {hk.hash} ELSE {}

RECURSIVE resolve(_, _, _)
RECURSIVE resolve_slice(_, _, _, _, _)
RECURSIVE resolve_list(_, _, _)
RECURSIVE node_resolve_slice(_, _, _, _, _)
RECURSIVE ResolveParts(_, _, _, _, _, _)

\* ResolveParts with the overlap left in the coordinates of the node
ResolveParts_NoRebase(s, parts, i, start, end, fuel) ==
    IF i > Len(parts) THEN ROk(<<>>, {})
    ELSE LET p == parts[i]
         IN  IF p.end <= start \/ p.start >= end
             THEN ResolveParts(s, parts, i + 1, start, end, fuel)
             ELSE Bind(resolve_slice(s, p.hkey, Max(start, p.start), Min(end, p.end), fuel),
                       LAMBDA x :
                          IF ~x.ok THEN x
                          ELSE Bind(ResolveParts(s, parts, i + 1, start, end, fuel), LAMBDA r :
                                  IF ~r.ok THEN Fetched(x.fetched, r) ELSE Extend(x, r)))

\* the parts of a node that meet start..end, each asked for its overlap
ResolveParts(s, parts, i, start, end, fuel) ==
    IF i > Len(parts) THEN ROk(<<>>, {})
    ELSE LET p == parts[i]
         IN  IF p.end <= start \/ p.start >= end
             THEN ResolveParts(s, parts, i + 1, start, end, fuel)
             ELSE LET overlap_start == Max(start, p.start) - p.start
                      overlap_end == Min(end, p.end) - p.start
                  IN  Bind(resolve_slice(s, p.hkey, overlap_start, overlap_end, fuel),
                           LAMBDA x :
                              IF ~x.ok THEN x
                              ELSE Bind(ResolveParts(s, parts, i + 1, start, end, fuel),
                                        LAMBDA r :
                                           IF ~r.ok THEN Fetched(x.fetched, r)
                                           ELSE Extend(x, r)))

\* LongHkeyExpanded::resolve_slice
node_resolve_slice(s, node, start, end, fuel) ==
    IF fuel = 0 THEN RErr("StackOverflow", {})
    ELSE Bind(ResolveParts(s, node.parts, 1, start, end, fuel - 1), LAMBDA r :
            IF r.ok /\ end < start THEN RErr("panic", r.fetched) ELSE r)

\* LongHkeyExpanded::resolve
node_resolve(s, node, fuel) == node_resolve_slice(s, node, 0, node.size, fuel)

resolve_list(s, list, fuel) ==
    IF list = <<>> THEN ROk(<<>>, {})
    ELSE Bind(resolve(s, Head(list), fuel), LAMBDA x :
            IF ~x.ok THEN x
            ELSE Bind(resolve_list(s, Tail(list), fuel), LAMBDA r :
                    IF ~r.ok THEN r ELSE Extend(x, r)))

\* Hkey::resolve_list_ref
resolve_list_ref(s, h, k, fuel) ==
    Bind(resolve_encrypted(s, h, k), LAMBDA list_bytes :
        IF ~list_bytes.ok THEN list_bytes
        ELSE Bind(parse(list_bytes.val), LAMBDA hk :
                IF ~hk.ok THEN RErr(hk.err, {h})
                ELSE Fetched({h}, resolve(s, hk.val, fuel))))

\* Hkey::resolve
resolve(s, hk, fuel) ==
    IF fuel = 0 THEN RErr("StackOverflow", {})
    ELSE CASE hk.tag = "Raw" -> ROk(hk.data, {})
           [] hk.tag = "Base64" -> ROk(Base64Decode(hk.data), {})
           [] hk.tag = "Direct" ->
                Bind(get(s, hk.hash), LAMBDA c :
                    IF c.ok THEN ROk(c.val, {hk.hash}) ELSE RErr(c.err, {hk.hash}))
           [] hk.tag = "Encrypted" -> resolve_encrypted(s, hk.hash, hk.key)
           [] hk.tag = "ListRef" -> resolve_list_ref(s, hk.hash, hk.key, fuel - 1)
           [] hk.tag = "List" -> resolve_list(s, hk.items, fuel - 1)
           [] hk.tag \in {"LongHkey", "LongHkeyExpanded"} ->
                \* lhkey.expand(store)?.resolve(store), or lhkey.resolve(store)
                Bind(Expanded(s, hk), LAMBDA expanded :
                    IF ~expanded.ok THEN RErr(expanded.err, {hk.hash})
                    ELSE Fetched(FetchedBy(hk), node_resolve(s, expanded.val, fuel - 1)))

\* Hkey::resolve_list_slice
resolve_list_slice(s, list, start, end, fuel) ==
    IF end < start THEN RErr("panic", {})
    ELSE IF list = <<>> THEN ROk(<<>>, {})
    ELSE Bind(resolve(s, list[1], fuel), LAMBDA chunk :
            LET len == BLen(chunk.val)
                to_skip == start
                to_take == end - start
            IN  IF ~chunk.ok THEN chunk
                ELSE IF to_skip > len THEN RErr("panic", chunk.fetched)
                ELSE IF to_take # len THEN RErr("panic", chunk.fetched)
                ELSE IF to_skip < len /\ overflow_checks THEN RErr("panic", chunk.fetched)
                ELSE ROk(<<>>, chunk.fetched))

\* Hkey::resolve_list_ref_slice
resolve_list_ref_slice(s, h, k, start, end, fuel) ==
    Bind(get(s, h), LAMBDA chunk :
        IF ~chunk.ok THEN RErr(chunk.err, {h})
        ELSE Bind(decrypt(s.dg, chunk.val, k), LAMBDA decrypted :
                IF ~decrypted.ok THEN RErr(decrypted.err, {h})
                ELSE Bind(parse(decrypted.val), LAMBDA hk :
                        IF ~hk.ok THEN RErr(hk.err, {h})
                        ELSE Fetched({h}, resolve_slice(s, hk.val, start, end, fuel)))))

\* Hkey::resolve_slice
resolve_slice(s, hk, start, end, fuel) ==
    IF fuel = 0 THEN RErr("StackOverflow", {})
    ELSE CASE hk.tag = "List" -> resolve_list_slice(s, hk.items, start, end, fuel - 1)
           [] hk.tag = "ListRef" -> resolve_list_ref_slice(s, hk.hash, hk.key, start, end, fuel - 1)
           [] hk.tag \in {"LongHkey", "LongHkeyExpanded"} ->
                \* lhkey.expand(store)?.resolve_slice(store, range), or
                \* lhkey.resolve_slice(store, range)
                Bind(Expanded(s, hk), LAMBDA expanded :
                    IF ~expanded.ok THEN RErr(expanded.err, {hk.hash})
                    ELSE Fetched(FetchedBy(hk),
                                 node_resolve_slice(s, expanded.val, start, end, fuel - 1)))
           [] OTHER ->
                Bind(resolve(s, hk, fuel), LAMBDA chunk :
                    IF ~chunk.ok THEN chunk
                    ELSE IF start <= end /\ end <= BLen(chunk.val)
                    THEN ROk(Slice(chunk.val, start, end), chunk.fetched)
                    ELSE RangeError(BLen(chunk.val), chunk.fetched))

\* ------------------------------------------------------------ put
RECURSIVE ILog2(_)
ILog2(n) == IF n <= 1 THEN 0 ELSE 1 + ILog2(n \div 2)

calculate_depth(min, end) ==
    IF end <= LHKEY_LEVEL_MAX_LENGTH THEN min
    ELSE LET log2 == ILog2(end - 1) + 1
             derived == DivCeil(log2 - LHKEY_LEVEL_MAX_LENGTH_LOG2, LHKEY_PART_COUNT_LOG2)
         IN  Max(min, derived)

calculate_segment_length_log2(depth) ==
    LET log2 == LHKEY_SEGMENT_MAX_LENGTH_LOG2 + depth * LHKEY_PART_COUNT_LOG2
    IN  IF log2 >= USIZE_BITS THEN USIZE_BITS - 1 ELSE log2

\* calculate_segment_length that gives the length of a leaf at every depth
calculate_segment_length_Leaf(depth) == 2 ^ LHKEY_SEGMENT_MAX_LENGTH_LOG2

calculate_segment_length(depth) == 2 ^ calculate_segment_length_log2(depth)

RECURSIVE Store_put(_, _, _)
RECURSIVE from_blob(_, _, _)
RECURSIVE FromBlobParts(_, _, _, _, _, _)

\* InMemoryStore::put encrypting under a nonce that differs from call to call
InMemoryStore_put_Nonce(s, data) ==
    LET encrypted == encrypt(s.dg, data \o <<<<GarbageSrc, Len(s.dg), 1>>>>)
    IN  Ok([dg |-> encrypted.dg, map |-> HashMapInsert(s.map, encrypted.hash, encrypted.data)],
           Encrypted(encrypted.hash, encrypted.key))

\* InMemoryStore::put: every blob is encrypted and inserted whole
InMemoryStore_put(s, data) ==
    LET encrypted == encrypt(s.dg, data)
    IN  Ok([dg |-> encrypted.dg, map |-> HashMapInsert(s.map, encrypted.hash, encrypted.data)],
           Encrypted(encrypted.hash, encrypted.key))

\* store.put of the store under test
put(k, s, data) == IF k = "in_memory" THEN InMemoryStore_put(s, data) ELSE Store_put(k, s, data)

\* LongHkeyExpanded::store
node_store(k, s, node) ==
    Bind(put(k, s, NodeToString(node)), LAMBDA r :
        IF ~r.ok THEN r
        ELSE IF r.val.tag = "Encrypted" THEN Ok(r.st, LongHkey(r.val.hash, r.val.key))
        ELSE Err(r.st, "StorageError"))

\* LongHkeyExpanded::shrink
shrink(k, s, node) == node_store(k, s, node)

\* the parts of from_blob: chunk index of data.chunks(segment_length), nested when deep
FromBlobParts(k, s, data, segment_length, index, deep) ==
    LET start == index * segment_length
        end == Min(start + segment_length, BLen(data))
        chunk == Slice(data, start, end)
    IN  IF start >= BLen(data) THEN Ok(s, <<>>)
        ELSE Bind(IF deep
                  THEN Bind(from_blob(k, s, chunk), LAMBDA child :
                          IF child.ok THEN shrink(k, child.st, child.val) ELSE child)
                  ELSE put(k, s, chunk),
                  LAMBDA hkey :
                     IF ~hkey.ok THEN hkey
                     ELSE Bind(FromBlobParts(k, hkey.st, data, segment_length, index + 1, deep),
                               LAMBDA r :
                                  IF r.ok
                                  THEN Ok(r.st, <<Part(start, end, hkey.val)>> \o r.val)
                                  ELSE r))

\* LongHkeyExpanded::from_blob
from_blob(k, s, data) ==
    LET depth == calculate_depth(0, BLen(data))
        deep == BLen(data) > LHKEY_LEVEL_MAX_LENGTH
        segment_length == IF deep THEN calculate_segment_length(depth)
                          ELSE LHKEY_SEGMENT_MAX_LENGTH
    IN  Bind(FromBlobParts(k, s, data, segment_length, 0, deep), LAMBDA parts :
            IF parts.ok THEN Ok(parts.st, new(depth, BLen(data), parts.val)) ELSE parts)

\* Store::put
Store_put(k, s, data) ==
    IF BLen(data) <= MAX_SIZE_RAW THEN Ok(s, Raw(data))
    ELSE IF BLen(data) <= MAX_ENCRYPTED_SIZE /\ validate(data)
    THEN Bind(hash(s.dg, data), LAMBDA h :
            Ok(put_encrypted([s EXCEPT !.dg = h.dg], data), Direct(h.h)))
    ELSE IF BLen(data) <= MAX_DECRYPTED_SIZE
    THEN Bind(encrypt(s.dg, data), LAMBDA encrypted :
            Ok(put_encrypted([s EXCEPT !.dg = encrypted.dg], encrypted.data),
               Encrypted(encrypted.hash, encrypted.key)))
    ELSE Bind(from_blob(k, s, data), LAMBDA lhkey :
            IF lhkey.ok THEN shrink(k, lhkey.st, lhkey.val) ELSE lhkey)

\* ------------------------------------------------------------ the compact form
\* Hkey::shrink: shrink_or_not, and the Hkey itself when there is nothing to shrink
Hkey_shrink(k, s, hk) ==
    CASE hk.tag = "Raw" /\ BLen(hk.data) > MAX_SIZE_RAW -> put(k, s, hk.data)
      [] hk.tag = "Base64" /\ BLen(hk.data) > MAX_SIZE_BASE64 ->
            put(k, s, Base64Decode(hk.data))
      [] hk.tag = "List" ->
            Bind(put(k, s, format_list(hk.items)), LAMBDA stored :
                IF ~stored.ok THEN stored
                ELSE IF stored.val.tag = "Encrypted"
                THEN Ok(stored.st, ListRef(stored.val.hash, stored.val.key))
                ELSE Err(stored.st, "EncryptedIntoListRefError"))
      [] hk.tag = "LongHkeyExpanded" -> node_store(k, s, hk.node)
      [] OTHER -> Ok(s, hk)

\* the low bit of the first byte of the compact form of the hash h
LowBit(h) == h % 2
\* Hash::compact: HASH_SIZE_COMPACT bytes that carry the hash and the low bit of byte 0
Hash_compact(h) == <<<<CompactSrc, 2 * h + LowBit(h), HASH_SIZE_COMPACT>>>>

\* compact_dhash that leaves byte 0 as the hash has it
compact_dhash_NoFlag(a, b, flag) == Hash_compact(a) \o Hash_compact(b)

\* compact_dhash: double[0] &= 0xFE; double[0] ^= flag
compact_dhash(a, b, flag) ==
    LET cleared == 0
    IN  <<<<CompactSrc, 2 * a + ((cleared + flag) % 2), HASH_SIZE_COMPACT>>>> \o Hash_compact(b)

\* the bytes of an Hkey that shrink returned
CompactBytes(hk) ==
    CASE hk.tag = "Raw" -> hk.data
      [] hk.tag = "Base64" -> Base64Decode(hk.data)
      [] hk.tag = "Direct" -> Hash_compact(hk.hash)
      [] hk.tag = "Encrypted" -> compact_dhash(hk.hash, hk.key, 0)
      [] hk.tag = "ListRef" -> compact_dhash(hk.hash, hk.key, 1)
      [] hk.tag = "LongHkey" -> compact_dhash(hk.hash, hk.key, 1)

\* Hkey::compact
compact(k, s, hk) ==
    Bind(Hkey_shrink(k, s, hk), LAMBDA r :
        IF r.ok THEN Ok(r.st, CompactBytes(r.val)) ELSE r)

\* Hash::validate_bin of HASH_SIZE_COMPACT bytes: the compact form of a hash, with
\* the low bit of byte 0 as the hash has it or flipped, reads as that hash; any other
\* bytes are not a hash
validate_bin(b) ==
    IF Len(b) = 1 /\ b[1][1] = CompactSrc /\ b[1][3] = HASH_SIZE_COMPACT
    THEN [ok |-> TRUE, h |-> b[1][2] \div 2]
    ELSE [ok |-> FALSE, h |-> 0]

\* bytes[0] & 1 of bytes that begin with the compact form of a hash
FirstBit(b) == b[1][2] % 2

\* Hkey::from_compact
from_compact(bytes) ==
    IF BLen(bytes) = HASH_SIZE_COMPACT
    THEN Bind(validate_bin(bytes), LAMBDA hv :
            IF hv.ok THEN POk(Direct(hv.h)) ELSE PErr("HashValidationError"))
    ELSE IF BLen(bytes) = DOUBLE_HASH_SIZE_COMPACT
    THEN Bind(validate_bin(Slice(bytes, 0, HASH_SIZE_COMPACT)), LAMBDA hv :
            IF ~hv.ok THEN PErr("HashValidationError")
            ELSE Bind(validate_bin(Slice(bytes, HASH_SIZE_COMPACT, DOUBLE_HASH_SIZE_COMPACT)),
                      LAMBDA kv :
                        IF ~kv.ok THEN PErr("HashValidationError")
                        ELSE IF FirstBit(bytes) = 0 THEN POk(Encrypted(hv.h, kv.h))
                        ELSE POk(ListRef(hv.h, kv.h))))
    ELSE POk(Raw(bytes))

\* ------------------------------------------------------------ the async pipeline
RECURSIVE AsyncStore_put(_, _)
RECURSIVE from_blob_async(_, _)
RECURSIVE FromBlobPartsAsync(_, _, _, _, _)

\* LongHkeyExpanded::store_async
store_async(s, node) ==
    Bind(AsyncStore_put(s, NodeToString(node)), LAMBDA r :
        IF ~r.ok THEN r
        ELSE IF r.val.tag = "Encrypted" THEN Ok(r.st, LongHkey(r.val.hash, r.val.key))
        ELSE Err(r.st, "StorageError"))

\* LongHkeyExpanded::shrink_async
shrink_async(s, node) == store_async(s, node)

\* the parts of from_blob_async: one chunk of data.chunks(segment_length) after the other
FromBlobPartsAsync(s, data, segment_length, index, deep) ==
    LET start == index * segment_length
        end == Min(start + segment_length, BLen(data))
        chunk == Slice(data, start, end)
    IN  IF start >= BLen(data) THEN Ok(s, <<>>)
        ELSE Bind(IF deep
                  THEN Bind(from_blob_async(s, chunk), LAMBDA child :
                          IF child.ok THEN shrink_async(child.st, child.val) ELSE child)
                  ELSE AsyncStore_put(s, chunk),
                  LAMBDA hkey :
                     IF ~hkey.ok THEN hkey
                     ELSE Bind(FromBlobPartsAsync(hkey.st, data, segment_length, index + 1, deep),
                               LAMBDA r :
                                  IF r.ok
                                  THEN Ok(r.st, <<Part(start, end, hkey.val)>> \o r.val)
                                  ELSE r))

\* LongHkeyExpanded::from_blob_async
from_blob_async(s, data) ==
    LET depth == calculate_depth(0, BLen(data))
        deep == BLen(data) > LHKEY_LEVEL_MAX_LENGTH
        segment_length == IF deep THEN calculate_segment_length(depth)
                          ELSE LHKEY_SEGMENT_MAX_LENGTH
    IN  Bind(FromBlobPartsAsync(s, data, segment_length, 0, deep), LAMBDA parts :
            IF parts.ok THEN Ok(parts.st, new(depth, BLen(data), parts.val)) ELSE parts)

\* AsyncStore::put
AsyncStore_put(s, data) ==
    IF BLen(data) <= MAX_SIZE_RAW THEN Ok(s, Raw(data))
    ELSE IF BLen(data) <= MAX_ENCRYPTED_SIZE /\ validate(data)
    THEN Bind(hash(s.dg, data), LAMBDA h :
            Ok(put_encrypted([s EXCEPT !.dg = h.dg], data), Direct(h.h)))
    ELSE IF BLen(data) <= MAX_DECRYPTED_SIZE
    THEN Bind(encrypt(s.dg, data), LAMBDA encrypted :
            Ok(put_encrypted([s EXCEPT !.dg = encrypted.dg], encrypted.data),
               Encrypted(encrypted.hash, encrypted.key)))
    ELSE Bind(from_blob_async(s, data), LAMBDA lhkey :
            IF lhkey.ok THEN shrink_async(lhkey.st, lhkey.val) ELSE lhkey)

\* Hkey::shrink_async: shrink_or_not_async, and the Hkey itself when there is nothing
\* to shrink
Hkey_shrink_async(s, hk) ==
    CASE hk.tag = "Raw" /\ BLen(hk.data) > MAX_SIZE_RAW -> AsyncStore_put(s, hk.data)
      [] hk.tag = "Base64" /\ BLen(hk.data) > MAX_SIZE_BASE64 ->
            AsyncStore_put(s, Base64Decode(hk.data))
      [] hk.tag = "List" ->
            Bind(AsyncStore_put(s, format_list(hk.items)), LAMBDA stored :
                IF ~stored.ok THEN stored
                ELSE IF stored.val.tag = "Encrypted"
                THEN Ok(stored.st, ListRef(stored.val.hash, stored.val.key))
                ELSE Err(stored.st, "EncryptedIntoListRefError"))
      [] hk.tag = "LongHkeyExpanded" ->
            Bind(AsyncStore_put(s, NodeToString(hk.node)), LAMBDA stored :
                IF ~stored.ok THEN stored
                ELSE IF stored.val.tag = "Encrypted"
                THEN Ok(stored.st, ListRef(stored.val.hash, stored.val.key))
                ELSE Err(stored.st, "StorageError"))
      [] OTHER -> Ok(s, hk)

\* ------------------------------------------------------------ update
\* &b[start..end] is in bounds
InRange(b, start, end) == 0 <= start /\ start <= end /\ end <= BLen(b)

\* store(buffer) as the part part_start..part_end
StorePart(k, s, part_start, part_end, buffer) ==
    Bind(put(k, s, buffer), LAMBDA r :
        IF r.ok THEN Ok(r.st, Part(part_start, part_end, r.val)) ELSE r)

\* the buffer of a part, or the error that ends the part
BOk(buffer) == [ok |-> TRUE, err |-> "", val |-> buffer]
BErr(e) == [ok |-> FALSE, err |-> e, val |-> <<>>]

\* PartCase that never keeps a part as it is
PartCase_NoKeep(self, start, end, part_start, part_end, index) ==
    IF end <= part_start \/ start >= part_end THEN "outside"
    ELSE IF part_start >= start /\ part_end <= end THEN "within"
    ELSE IF start >= part_start /\ end <= part_end THEN "inside"
    ELSE IF start > part_start THEN "head"
    ELSE "tail"

\* the branch of update_flat that builds the part part_start..part_end
PartCase(self, start, end, part_start, part_end, index) ==
    IF end <= part_start \/ start >= part_end
    THEN \* part is entirely outside of range
         IF index + 1 <= Len(self.parts)
            /\ self.parts[index + 1].start = part_start
            /\ self.parts[index + 1].end = part_end
         THEN "kept"
         ELSE "outside"
    ELSE IF part_start >= start /\ part_end <= end THEN "within"
    ELSE IF start >= part_start /\ end <= part_end THEN "inside"
    ELSE IF start > part_start THEN "head"
    ELSE IF part_start >= start THEN "tail"
    ELSE "unreachable"

\* the range that branch c asks of self.resolve_slice
PartRange(c, data, start, part_start, part_end) ==
    CASE c = "head" -> <<part_start, start>>
      [] c = "tail" -> <<BLen(data) - (part_start - start), part_end>>
      [] OTHER -> <<part_start, part_end>>

\* the buffer branch c stores; original is the result of its self.resolve_slice
PartBuffer(c, data, start, part_start, part_end, original) ==
    CASE c = "outside" ->
            IF ~original.ok THEN BErr(original.err) ELSE BOk(original.val)
      [] c = "within" ->
            IF ~InRange(data, part_start - start, part_end - start) THEN BErr("panic")
            ELSE BOk(Slice(data, part_start - start, part_end - start))
      [] c = "inside" ->
            LET data_start == start - part_start
                data_end == data_start + BLen(data)
                orig_start == Min(data_end, BLen(original.val))
            IN  IF ~original.ok THEN BErr(original.err)
                ELSE IF data_start > BLen(original.val) THEN BErr("panic")
                ELSE BOk(Cat(Cat(Slice(original.val, 0, data_start), data),
                             Slice(original.val, orig_start, BLen(original.val))))
      [] c = "head" ->
            IF ~original.ok THEN BErr(original.err)
            ELSE IF ~InRange(data, 0, part_end - start) THEN BErr("panic")
            ELSE BOk(Cat(original.val, Slice(data, 0, part_end - start)))
      [] c = "tail" ->
            LET data_start == part_start - start
            IN  IF data_start > BLen(data) THEN BErr("panic")
                ELSE IF ~original.ok THEN BErr(original.err)
                ELSE BOk(Cat(Slice(data, data_start, BLen(data)), original.val))
      [] OTHER -> BErr("UnreachableCodeReached")

\* one part of update_flat: the leaf index of the new node
update_flat_part(k, s, self, data, start, end, new_size, index) ==
    LET part_start == index * LHKEY_SEGMENT_MAX_LENGTH
        part_end == Min((index + 1) * LHKEY_SEGMENT_MAX_LENGTH, new_size)
        c == PartCase(self, start, end, part_start, part_end, index)
        range == PartRange(c, data, start, part_start, part_end)
    IN  IF c = "kept" THEN Ok(s, self.parts[index + 1])
        ELSE Bind(PartBuffer(c, data, start, part_start, part_end,
                             node_resolve_slice(s, self, range[1], range[2], MaxResolveDepth)),
                  LAMBDA buffer :
                     IF buffer.ok THEN StorePart(k, s, part_start, part_end, buffer.val)
                     ELSE Err(s, buffer.err))

RECURSIVE update_flat_parts(_, _, _, _, _, _, _, _, _)
update_flat_parts(k, s, self, data, start, end, new_size, index, count) ==
    IF index >= count THEN Ok(s, <<>>)
    ELSE Bind(update_flat_part(k, s, self, data, start, end, new_size, index), LAMBDA x :
            IF ~x.ok THEN x
            ELSE Bind(update_flat_parts(k, x.st, self, data, start, end, new_size,
                                        index + 1, count),
                      LAMBDA r : IF r.ok THEN Ok(r.st, <<x.val>> \o r.val) ELSE r))

\* LongHkeyExpanded::update_flat
update_flat(k, s, self, data0, start0, end0) ==
    IF end0 < start0 /\ overflow_checks THEN Err(s, "panic")
    ELSE LET length == IF end0 < start0 THEN BLen(data0) ELSE Min(BLen(data0), end0 - start0)
             start == start0
             end == start0 + length
             data == Slice(data0, 0, length)
             new_size == Max(end, self.size)
         IN  Bind(update_flat_parts(k, s, self, data, start, end, new_size, 0,
                                    DivCeil(new_size, LHKEY_SEGMENT_MAX_LENGTH)),
                  LAMBDA parts :
                     IF parts.ok THEN Ok(parts.st, new(0, length, parts.val)) ELSE parts)

\* the part of self whose range is start..end and whose Hkey is a long node, 0 when none
MatchingPart(self, start, end) ==
    LET at == {i \in 1..Len(self.parts) :
                 /\ self.parts[i].start = start
                 /\ self.parts[i].end = end
                 /\ self.parts[i].hkey.tag \in {"LongHkeyExpanded", "LongHkey"}}
    IN  IF at = {} THEN 0 ELSE CHOOSE i \in at : \A j \in at : i <= j

RECURSIVE normalize_segment(_, _, _, _, _, _)
RECURSIVE NormalizeParts(_, _, _, _, _, _, _, _, _)

\* the parts of a rebuilt segment: leaves when depth is 0, stored children otherwise
NormalizeParts(k, s, self, depth, start, end, segment_length, index, count) ==
    IF index >= count THEN Ok(s, <<>>)
    ELSE LET begin == start + index * segment_length
             stop == Min(end, start + (index + 1) * segment_length)
         IN  Bind(IF depth = 0
                  THEN Bind(node_resolve_slice(s, self, begin, stop, MaxResolveDepth),
                            LAMBDA data :
                               IF data.ok THEN put(k, s, data.val) ELSE Err(s, data.err))
                  ELSE Bind(normalize_segment(k, s, self, depth - 1, begin, stop),
                            LAMBDA lhkey :
                               IF lhkey.ok THEN node_store(k, lhkey.st, lhkey.val) ELSE lhkey),
                  LAMBDA hkey :
                     IF ~hkey.ok THEN hkey
                     ELSE Bind(NormalizeParts(k, hkey.st, self, depth, start, end,
                                              segment_length, index + 1, count),
                               LAMBDA r :
                                  IF r.ok
                                  THEN Ok(r.st, <<Part(index * segment_length,
                                                       (index + 1) * segment_length,
                                                       hkey.val)>> \o r.val)
                                  ELSE r))

\* LongHkeyExpanded::normalize_segment
normalize_segment(k, s, self, depth0, start, end) ==
    IF end = start THEN Ok(s, EmptyNode)
    ELSE IF MatchingPart(self, start, end) # 0
    THEN Bind(self.parts[MatchingPart(self, start, end)], LAMBDA part :
            IF part.hkey.tag = "LongHkeyExpanded" THEN Ok(s, part.hkey.node)
            ELSE Bind(expand(s, part.hkey.hash, part.hkey.key), LAMBDA lhkey :
                    IF lhkey.ok THEN Ok(s, lhkey.val) ELSE Err(s, lhkey.err)))
    ELSE IF end < start /\ overflow_checks THEN Err(s, "panic")
    ELSE LET length == end - start
             depth == calculate_depth(depth0, length)
             \* the leaves of a depth-0 segment are LHKEY_SEGMENT_MAX_LENGTH long and
             \* hang under a node of depth 1
             segment_length == IF depth = 0 THEN LHKEY_SEGMENT_MAX_LENGTH
                               ELSE calculate_segment_length(depth)
         IN  IF depth = 0 /\ length <= LHKEY_SEGMENT_MAX_LENGTH
             THEN Bind(node_resolve_slice(s, self, start, end, MaxResolveDepth), LAMBDA data :
                     IF ~data.ok THEN Err(s, data.err)
                     ELSE Bind(put(k, s, data.val), LAMBDA hkey :
                             IF ~hkey.ok THEN hkey
                             ELSE Ok(hkey.st,
                                     new(0, BLen(data.val), <<Part(0, length, hkey.val)>>))))
             ELSE Bind(NormalizeParts(k, s, self, depth, start, end, segment_length,
                                      0, DivCeil(length, segment_length)),
                       LAMBDA parts :
                          IF parts.ok
                          THEN Ok(parts.st, new(Max(depth, 1), length, parts.val))
                          ELSE parts)

\* update recursing deeper than MaxUpdateDepth overflows the stack
MaxUpdateDepth == 6

RECURSIVE update(_, _, _, _, _, _, _)
RECURSIVE update_parts(_, _, _, _, _, _, _, _, _, _, _)

\* segment.update of the segment that meets the range rs..re of the data
UpdateSegment(k, self, segment, data, rs, re, start, end, fuel) ==
    LET offset_start == Max(start, rs)
        offset_end == Min(end, re)
    IN  IF ~segment.ok THEN segment
        ELSE IF start >= re \/ end <= rs THEN segment
        ELSE IF ~InRange(data, offset_start - rs, offset_end - rs)
        THEN Err(segment.st, "panic")
        ELSE IF segment.val = self /\ offset_start = rs /\ offset_end = re
                /\ BLen(data) = re - rs
        THEN Err(segment.st, "StackOverflow")
        ELSE update(k, segment.st, segment.val,
                    Slice(data, offset_start - rs, offset_end - rs),
                    offset_start, offset_end, fuel - 1)

\* the segments of update: segment index of the new node
update_parts(k, s, self, data, rs, re, depth, length, index, count, fuel) ==
    IF index >= count THEN Ok(s, <<>>)
    ELSE LET segment_length == calculate_segment_length(depth)
             start == index * segment_length
             end == Min((index + 1) * segment_length, length)
         IN  Bind(UpdateSegment(k, self,
                                normalize_segment(k, s, self, depth - 1,
                                                  Min(start, self.size), Min(end, self.size)),
                                data, rs, re, start, end, fuel),
                  LAMBDA updated :
                     Bind(IF updated.ok THEN node_store(k, updated.st, updated.val)
                          ELSE updated,
                          LAMBDA hkey :
                             IF ~hkey.ok THEN hkey
                             ELSE Bind(update_parts(k, hkey.st, self, data, rs, re, depth,
                                                    length, index + 1, count, fuel),
                                       LAMBDA r :
                                          IF r.ok
                                          THEN Ok(r.st, <<Part(start, end, hkey.val)>> \o r.val)
                                          ELSE r)))

\* update that labels its node with the depth the end of the range alone asks for
update_DepthOfEnd(k, s, self, data, start, end0, fuel) ==
    IF fuel = 0 THEN Err(s, "StackOverflow")
    ELSE LET end == Min(end0, start + BLen(data))
             length == Max(end, self.size)
             depth == calculate_depth(self.depth, end)
             segment_length == calculate_segment_length(depth)
         IN  IF depth = 0 THEN update_flat(k, s, self, data, start, end)
             ELSE Bind(update_parts(k, s, self, data, start, end, depth, length, 0,
                                    DivCeil(length, segment_length), fuel),
                       LAMBDA parts :
                          IF parts.ok
                          THEN Ok(parts.st, new(calculate_depth(0, end), length, parts.val))
                          ELSE parts)

\* LongHkeyExpanded::update
update(k, s, self, data, start, end0, fuel) ==
    IF fuel = 0 THEN Err(s, "StackOverflow")
    ELSE LET end == Min(end0, start + BLen(data))
             length == Max(end, self.size)
             depth == calculate_depth(self.depth, end)
             segment_length == calculate_segment_length(depth)
         IN  IF depth = 0 THEN update_flat(k, s, self, data, start, end)
             ELSE Bind(update_parts(k, s, self, data, start, end, depth, length, 0,
                                    DivCeil(length, segment_length), fuel),
                       LAMBDA parts :
                          IF parts.ok THEN Ok(parts.st, new(depth, length, parts.val))
                          ELSE parts)

\* ------------------------------------------------------------ the store and the tree
tree == <<overflow_checks, kind, store, root, last>>
mixed == <<stores, async_stores, call>>
vars == <<tree, ops, mixed, conv>>

MaxOps == 2
MaxSrc == 2

PutSizes == {47, 48, 4097, 4143, 65537, 70000}
ChunkSizes == {100, 4096}
FromBlobSizes == {0, 10000, 70000}
\* <<length of the data, range.start, range.end>>
UpdateInputs ==
    {<<100, 100, 200>>, <<5000, 2000, 7000>>, <<3000, 9000, 12000>>, <<10000, 0, 10000>>,
     <<100, 66000, 66100>>}
SliceRanges ==
    {<<0, 100>>, <<100, 5000>>, <<4096, 8192>>, <<5000, 70000>>, <<65000, 66000>>}

\* a chunk in the cipher's format
Chunk(src, n) == <<HeaderRun>> \o Blob(src, n)

PutInputs ==
    {Blob(1, n) : n \in PutSizes} \cup {Blob(MaxSrc, 48)} \cup {Chunk(1, n) : n \in ChunkSizes}

NoOp ==
    [op |-> "none", data |-> <<>>, start |-> 0, end |-> 0, ok |-> TRUE, err |-> "",
     hkey |-> Raw(<<>>), self |-> EmptyNode, val |-> <<>>, fetched |-> {}, before |-> <<>>]

\* errors of the composite stores: <<what, side of the backend, index of the backend>>
NoErr == <<"none", "none", 0>>
no_stores == <<"no_stores", "none", 0>>
NotFound(side, i) == <<"not_found", side, i>>
Rejected(side, i) == <<"rejected", side, i>>

\* no call yet.  from: the backend whose chunk was returned; consulted: the backends
\* asked, in order; errs: the errors met, in order; promises: the queue of pending
\* async backends; before: the backends when the call began
NoCall ==
    [op |-> "none", hash |-> 0, state |-> "done", ok |-> TRUE, err |-> NoErr,
     from |-> <<"none", 0>>, consulted |-> <<>>, errs |-> <<>>, last_err |-> NoErr,
     promises |-> <<>>, before |-> <<<<>>, <<>>>>, guards |-> 0]

\* no conversion yet.  from: what the rounds began with; hkeys and texts: the Hkeys and
\* the texts of the rounds, in order; turn: the conversion that comes next; tried: the
\* result of try_parse on the bytes; bin: the result of compact on the Hkey; back: the
\* result of from_compact on the bytes of bin.  A result with err = "none" is not there.
NoConv ==
    [from |-> "none", hkeys |-> <<>>, texts |-> <<>>, turn |-> "stop", err |-> "",
     tried |-> [ok |-> FALSE, err |-> "none", val |-> Raw(<<>>)],
     bin |-> [ok |-> FALSE, err |-> "none", val |-> <<>>],
     back |-> [ok |-> FALSE, err |-> "none", val |-> Raw(<<>>)]]

Init ==
    /\ overflow_checks \in BOOLEAN
    /\ kind \in {"default", "in_memory"}
    /\ store = EmptyStore
    /\ root = EmptyNode
    /\ last = NoOp
    /\ ops = 0
    /\ stores = <<>>
    /\ async_stores = <<>>
    /\ call = NoCall
    /\ conv = NoConv

PutResult(b, r) ==
    [NoOp EXCEPT !.op = "put", !.data = b, !.ok = r.ok, !.err = r.err,
                 !.hkey = IF r.ok THEN r.val ELSE Raw(<<>>), !.before = store.map]

\* put(b) returned r
PutDone(b, r) ==
    /\ store' = r.st
    /\ last' = PutResult(b, r)

\* store.put(b) on a store that keeps the trait's put
StorePutAct(b) ==
    /\ kind = "default"
    /\ ops < MaxOps
    /\ PutDone(b, Store_put(kind, store, b))
    /\ ops' = ops + 1
    /\ UNCHANGED <<overflow_checks, kind, root, mixed, conv>>

\* store.put(b) on the InMemoryStore
InMemoryPutAct(b) ==
    /\ kind = "in_memory"
    /\ ops < MaxOps
    /\ PutDone(b, InMemoryStore_put(store, b))
    /\ ops' = ops + 1
    /\ UNCHANGED <<overflow_checks, kind, root, mixed, conv>>

\* store.put_encrypted(c)
PutEncryptedAct(c) ==
    /\ ops < MaxOps
    /\ store' = put_encrypted(store, c)
    /\ last' = [NoOp EXCEPT !.op = "put_encrypted", !.data = c, !.before = store.map]
    /\ ops' = ops + 1
    /\ UNCHANGED <<overflow_checks, kind, root, mixed, conv>>

\* from_blob(b) returned r
FromBlobDone(b, r) ==
    /\ store' = r.st
    /\ root' = IF r.ok THEN r.val ELSE root
    /\ last' = [NoOp EXCEPT !.op = "from_blob", !.data = b, !.ok = r.ok, !.err = r.err,
                            !.self = root, !.before = store.map]

\* root = LongHkeyExpanded::from_blob(store, b)
FromBlobAct(b) ==
    /\ ops < MaxOps
    /\ FromBlobDone(b, from_blob(kind, store, b))
    /\ ops' = ops + 1
    /\ UNCHANGED <<overflow_checks, kind, mixed, conv>>

\* shrink returned r
ShrinkDone(r) ==
    /\ store' = r.st
    /\ last' = [NoOp EXCEPT !.op = "shrink", !.ok = r.ok, !.err = r.err,
                            !.hkey = IF r.ok THEN r.val ELSE Raw(<<>>),
                            !.self = root, !.before = store.map]

\* root.shrink(store)
ShrinkAct ==
    /\ ops < MaxOps
    /\ ShrinkDone(shrink(kind, store, root))
    /\ ops' = ops + 1
    /\ UNCHANGED <<overflow_checks, kind, root, mixed, conv>>

\* update(d, start..end) returned r
UpdateDone(d, start, end, r) ==
    /\ store' = r.st
    /\ root' = IF r.ok THEN r.val ELSE root
    /\ last' = [NoOp EXCEPT !.op = "update", !.data = d, !.start = start, !.end = end,
                            !.ok = r.ok, !.err = r.err, !.self = root, !.before = store.map]

\* root = root.update(fetch, store, d, r)
UpdateAct(u) ==
    /\ ops < MaxOps
    /\ UpdateDone(Blob(MaxSrc, u[1]), u[2], u[3],
                  update(kind, store, root, Blob(MaxSrc, u[1]), u[2], u[3], MaxUpdateDepth))
    /\ ops' = ops + 1
    /\ UNCHANGED <<overflow_checks, kind, mixed, conv>>

\* resolve_slice(start..end) returned x
ResolveSliceDone(start, end, x) ==
    last' = [NoOp EXCEPT !.op = "resolve_slice", !.start = start, !.end = end,
                         !.ok = x.ok, !.err = x.err, !.val = x.val,
                         !.fetched = x.fetched, !.self = root, !.before = store.map]

\* root.resolve_slice(store, r)
ResolveSliceAct(r) ==
    /\ ops < MaxOps
    /\ ResolveSliceDone(r[1], r[2],
                        node_resolve_slice(store, root, r[1], r[2], MaxResolveDepth))
    /\ ops' = ops + 1
    /\ UNCHANGED <<overflow_checks, kind, store, root, mixed, conv>>

\* lists of inline children, and ranges within and beyond their 7 bytes
ListInputs ==
    {<<>>, <<Raw(Blob(1, 3))>>, <<Raw(Blob(1, 3)), Raw(Blob(2, 4))>>,
     <<Raw(<<>>), Raw(Blob(1, 3)), Raw(Blob(2, 4))>>}
ListRanges == {<<0, 0>>, <<0, 3>>, <<0, 7>>, <<2, 5>>, <<3, 6>>, <<3, 7>>, <<0, 10>>}

\* resolve_slice(start..end) of List(list) returned x
ListSliceDone(list, start, end, x) ==
    last' = [NoOp EXCEPT !.op = "list_slice", !.hkey = List(list), !.start = start,
                         !.end = end, !.ok = x.ok, !.err = x.err, !.val = x.val,
                         !.fetched = x.fetched, !.self = root, !.before = store.map]

\* Hkey::List(list).resolve_slice(store, r)
ListSliceAct(list, r) ==
    /\ ops < MaxOps
    /\ ListSliceDone(list, r[1], r[2],
                     resolve_slice(store, List(list), r[1], r[2], MaxResolveDepth))
    /\ ops' = ops + 1
    /\ UNCHANGED <<overflow_checks, kind, store, root, mixed, conv>>

AsyncPutInputs == {Blob(1, n) : n \in {47, 48, 4097, 70000}} \cup {Chunk(1, 100)}

\* a call of the sync or async pipeline on the data b or on the root returned r
PipelineDone(op, b, r) ==
    /\ store' = r.st
    /\ last' = [NoOp EXCEPT !.op = op, !.data = b, !.ok = r.ok, !.err = r.err,
                            !.hkey = IF r.ok THEN r.val ELSE Raw(<<>>),
                            !.self = root, !.before = store]

\* AsyncStore::put(&store, b), awaited
AsyncPutAct(b) ==
    /\ ops < MaxOps
    /\ kind = "default"
    /\ PipelineDone("put_async", b, AsyncStore_put(store, b))
    /\ ops' = ops + 1
    /\ UNCHANGED <<overflow_checks, kind, root, mixed, conv>>

\* Hkey::LongHkeyExpanded(root).shrink(store)
HkeyShrinkAct ==
    /\ ops < MaxOps
    /\ kind = "default"
    /\ PipelineDone("hkey_shrink", <<>>, Hkey_shrink(kind, store, LongHkeyExpanded(root)))
    /\ ops' = ops + 1
    /\ UNCHANGED <<overflow_checks, kind, root, mixed, conv>>

\* Hkey::LongHkeyExpanded(root).shrink_async(store), awaited
HkeyShrinkAsyncAct ==
    /\ ops < MaxOps
    /\ kind = "default"
    /\ PipelineDone("hkey_shrink_async", <<>>,
                    Hkey_shrink_async(store, LongHkeyExpanded(root)))
    /\ ops' = ops + 1
    /\ UNCHANGED <<overflow_checks, kind, root, mixed, conv>>

Next ==
    \/ \E b \in PutInputs : StorePutAct(b)
    \/ \E b \in PutInputs : InMemoryPutAct(b)
    \/ \E c \in {Chunk(1, 100)} : PutEncryptedAct(c)
    \/ \E n \in FromBlobSizes : FromBlobAct(Blob(1, n))
    \/ ShrinkAct
    \/ \E u \in UpdateInputs : UpdateAct(u)
    \/ \E r \in SliceRanges : ResolveSliceAct(r)
    \/ \E list \in ListInputs, r \in ListRanges : ListSliceAct(list, r)
    \/ \E b \in AsyncPutInputs : AsyncPutAct(b)
    \/ HkeyShrinkAct
    \/ HkeyShrinkAsyncAct

Spec == Init /\ [][Next]_vars

\* ------------------------------------------------------------ the composite stores
MaxStores == 2
Hashes == {1}

\* a backend: the hashes it holds, and whether it accepts a put_encrypted
Backends == [has : SUBSET Hashes, accepts : BOOLEAN]
StoreLists == UNION {[1 .. n -> Backends] : n \in 0 .. MaxStores}

Accepting(ss) == \A i \in 1 .. Len(ss) : ss[i].accepts
AllHold(ss, h) == \A i \in 1 .. Len(ss) : h \in ss[i].has

\* backend.get(hash)
DynStore_get(b, h) == h \in b.has
\* backend.put_encrypted(chunk)
DynStore_put_encrypted(b, h) == IF b.accepts THEN [b EXCEPT !.has = @ \cup {h}] ELSE b

GOk(i, consulted, errs) ==
    [ok |-> TRUE, err |-> NoErr, from |-> <<"sync", i>>, consulted |-> consulted, errs |-> errs]
GErr(e, consulted, errs) ==
    [ok |-> FALSE, err |-> e, from |-> <<"none", 0>>, consulted |-> consulted, errs |-> errs]

RECURSIVE GetLoop(_, _, _, _, _, _)
\* for s in stores { match s.get(hash) { Ok => return, Err => last_err = err } }
GetLoop(ss, h, i, last_err, consulted, errs) ==
    IF i > Len(ss) THEN GErr(last_err, consulted, errs)
    ELSE IF DynStore_get(ss[i], h) THEN GOk(i, Append(consulted, <<"sync", i>>), errs)
    ELSE GetLoop(ss, h, i + 1, NotFound("sync", i), Append(consulted, <<"sync", i>>),
                 Append(errs, NotFound("sync", i)))

\* get_sync answering with the last backend that holds the chunk
get_sync_Last(ss, h) ==
    LET hits == {i \in 1 .. Len(ss) : DynStore_get(ss[i], h)}
        all == [i \in 1 .. Len(ss) |-> <<"sync", i>>]
    IN  IF hits = {} THEN GErr(no_stores, all, <<>>)
        ELSE GOk(CHOOSE i \in hits : \A j \in hits : j <= i, all, <<>>)

\* MixedStore::get_sync
get_sync(ss, h) ==
    LET r == GetLoop(ss, h, 1, NoErr, <<>>, <<>>)
    IN  IF ~r.ok /\ r.err = NoErr THEN [r EXCEPT !.err = no_stores] ELSE r

\* CombinedStore::get
CombinedStore_get(ss, h) ==
    LET r == GetLoop(ss, h, 1, NoErr, <<>>, <<>>)
    IN  IF ~r.ok /\ r.err = NoErr THEN [r EXCEPT !.err = no_stores] ELSE r

\* get_async that makes no promise of the async backends
get_async_SyncOnly(ss, as, h) ==
    LET r == GetLoop(ss, h, 1, no_stores, <<>>, <<>>)
    IN  [state |-> IF r.ok THEN "done" ELSE "pending", r |-> r, last_err |-> r.err,
         promises |-> <<>>]

\* MixedStore::get_async: Promise::Resolved of a sync backend's chunk, or the GetAsync
\* future over one promise per async backend
get_async(ss, as, h) ==
    LET r == GetLoop(ss, h, 1, no_stores, <<>>, <<>>)
    IN  IF r.ok THEN [state |-> "done", r |-> r, last_err |-> NoErr, promises |-> <<>>]
        ELSE [state |-> "pending", r |-> r, last_err |-> r.err,
              promises |-> [i \in 1 .. Len(as) |-> i]]

RECURSIVE GetAsync_poll_Waits(_, _, _, _, _, _, _, _, _)
\* a poll that stays Pending when no promise is left
GetAsync_poll_Waits(q, ready, as, h, i, last_err, kept, consulted, errs) ==
    IF i > Len(q)
    THEN [state |-> "pending", ok |-> FALSE, err |-> NoErr, from |-> <<"none", 0>>,
          last_err |-> last_err, promises |-> kept, consulted |-> consulted,
          errs |-> errs]
    ELSE IF q[i] \notin ready
    THEN GetAsync_poll_Waits(q, ready, as, h, i + 1, last_err, Append(kept, q[i]),
                             consulted, errs)
    ELSE IF DynStore_get(as[q[i]], h)
    THEN [state |-> "done", ok |-> TRUE, err |-> NoErr, from |-> <<"async", q[i]>>,
          last_err |-> last_err, promises |-> kept,
          consulted |-> Append(consulted, <<"async", q[i]>>), errs |-> errs]
    ELSE GetAsync_poll_Waits(q, ready, as, h, i + 1, NotFound("async", q[i]), kept,
                             Append(consulted, <<"async", q[i]>>),
                             Append(errs, NotFound("async", q[i])))

RECURSIVE GetAsync_poll(_, _, _, _, _, _, _, _, _)
\* GetAsync::poll over the queue q; the promises in ready are Ready at this poll, the
\* others Pending
GetAsync_poll(q, ready, as, h, i, last_err, kept, consulted, errs) ==
    IF i > Len(q)
    THEN IF kept = <<>>
         THEN [state |-> "done", ok |-> FALSE, err |-> last_err, from |-> <<"none", 0>>,
               last_err |-> <<"already_consumed", "none", 0>>, promises |-> kept,
               consulted |-> consulted, errs |-> errs]
         ELSE [state |-> "pending", ok |-> FALSE, err |-> NoErr, from |-> <<"none", 0>>,
               last_err |-> last_err, promises |-> kept, consulted |-> consulted,
               errs |-> errs]
    ELSE IF q[i] \notin ready
    THEN GetAsync_poll(q, ready, as, h, i + 1, last_err, Append(kept, q[i]), consulted, errs)
    ELSE IF DynStore_get(as[q[i]], h)
    THEN [state |-> "done", ok |-> TRUE, err |-> NoErr, from |-> <<"async", q[i]>>,
          last_err |-> last_err, promises |-> kept,
          consulted |-> Append(consulted, <<"async", q[i]>>), errs |-> errs]
    ELSE GetAsync_poll(q, ready, as, h, i + 1, NotFound("async", q[i]), kept,
                       Append(consulted, <<"async", q[i]>>),
                       Append(errs, NotFound("async", q[i])))

RECURSIVE PutAllSync(_, _, _)
\* for s in stores { s.put_encrypted(chunk)?; }
PutAllSync(ss, h, i) ==
    IF i > Len(ss) THEN [ok |-> TRUE, err |-> NoErr, ss |-> ss]
    ELSE IF ~ss[i].accepts THEN [ok |-> FALSE, err |-> Rejected("sync", i), ss |-> ss]
    ELSE PutAllSync([ss EXCEPT ![i] = DynStore_put_encrypted(@, h)], h, i + 1)

\* <MixedStore<E, true> as Store>::put_encrypted
MixedStore_put_encrypted(ss, h) ==
    IF Len(ss) = 0 THEN [ok |-> FALSE, err |-> no_stores, ss |-> ss]
    ELSE PutAllSync(ss, h, 1)

\* the first rejection among the promises of the sync backends
FirstRejected(ss) ==
    LET bad == {i \in 1 .. Len(ss) : ~ss[i].accepts}
    IN  IF bad = {} THEN NoErr ELSE Rejected("sync", CHOOSE i \in bad : \A j \in bad : i <= j)

\* AsyncStore::put_encrypted that makes no promise of the async backends
AsyncStore_put_encrypted_SyncOnly(ss, as, h) ==
    IF Len(ss) = 0 /\ Len(as) = 0
    THEN [state |-> "done", ok |-> FALSE, err |-> no_stores, ss |-> ss, promises |-> <<>>]
    ELSE LET e == FirstRejected(ss)
         IN  [state |-> "done", ok |-> e = NoErr, err |-> e,
              ss |-> [i \in 1 .. Len(ss) |-> DynStore_put_encrypted(ss[i], h)],
              promises |-> <<>>]

\* AsyncStore::put_encrypted that asks for a sync backend, as Store::put_encrypted does
AsyncStore_put_encrypted_NeedsSync(ss, as, h) ==
    IF Len(ss) = 0
    THEN [state |-> "done", ok |-> FALSE, err |-> no_stores, ss |-> ss, promises |-> <<>>]
    ELSE LET e == FirstRejected(ss)
             written == [i \in 1 .. Len(ss) |-> DynStore_put_encrypted(ss[i], h)]
             queue == [i \in 1 .. Len(as) |-> i]
         IN  IF e # NoErr
             THEN [state |-> "done", ok |-> FALSE, err |-> e, ss |-> written,
                   promises |-> queue]
             ELSE [state |-> IF Len(as) = 0 THEN "done" ELSE "pending", ok |-> TRUE,
                   err |-> NoErr, ss |-> written, promises |-> queue]

\* <MixedStore<E, true> as AsyncStore>::put_encrypted: every sync backend is written,
\* every async backend gives a promise, Promise::all joins them
AsyncStore_put_encrypted(ss, as, h) ==
    IF Len(ss) = 0 /\ Len(as) = 0
    THEN [state |-> "done", ok |-> FALSE, err |-> no_stores, ss |-> ss, promises |-> <<>>]
    ELSE LET e == FirstRejected(ss)
             written == [i \in 1 .. Len(ss) |-> DynStore_put_encrypted(ss[i], h)]
             queue == [i \in 1 .. Len(as) |-> i]
         IN  IF e # NoErr
             THEN [state |-> "done", ok |-> FALSE, err |-> e, ss |-> written,
                   promises |-> queue]
             ELSE [state |-> IF Len(as) = 0 THEN "done" ELSE "pending", ok |-> TRUE,
                   err |-> NoErr, ss |-> written, promises |-> queue]

RECURSIVE PutOneLoop(_, _, _, _)
\* for store in stores { match store.put_encrypted(chunk) { Ok => return, Err => last_err } }
PutOneLoop(ss, h, i, last_err) ==
    IF i > Len(ss) THEN [ok |-> FALSE, err |-> last_err, ss |-> ss]
    ELSE IF ss[i].accepts
    THEN [ok |-> TRUE, err |-> NoErr, ss |-> [ss EXCEPT ![i] = DynStore_put_encrypted(@, h)]]
    ELSE PutOneLoop(ss, h, i + 1, Rejected("sync", i))

\* a write_to_one that does not return at the first success
put_encrypted_to_one_All(ss, h) ==
    [ok |-> \E i \in 1 .. Len(ss) : ss[i].accepts,
     err |-> IF \E i \in 1 .. Len(ss) : ss[i].accepts THEN NoErr
             ELSE IF ss = <<>> THEN no_stores
             ELSE Rejected("sync", Len(ss)),
     ss |-> [i \in 1 .. Len(ss) |-> DynStore_put_encrypted(ss[i], h)]]

\* <MixedStore<E, false> as Store>::put_encrypted
put_encrypted_to_one(ss, h) == PutOneLoop(ss, h, 1, no_stores)

\* <MixedStore<E, false> as AsyncStore>::put_encrypted: the first accepting sync backend,
\* else Promise::any over one promise per async backend
AsyncStore_put_encrypted_to_one(ss, as, h) ==
    IF Len(ss) = 0 /\ Len(as) = 0
    THEN [state |-> "done", ok |-> FALSE, err |-> no_stores, ss |-> ss, last_err |-> NoErr,
          promises |-> <<>>]
    ELSE LET r == PutOneLoop(ss, h, 1, NoErr)
         IN  IF r.ok
             THEN [state |-> "done", ok |-> TRUE, err |-> NoErr, ss |-> r.ss,
                   last_err |-> NoErr, promises |-> <<>>]
             ELSE IF Len(as) = 0
             THEN [state |-> "done", ok |-> FALSE,
                   err |-> IF r.err = NoErr THEN no_stores ELSE r.err, ss |-> r.ss,
                   last_err |-> r.err, promises |-> <<>>]
             ELSE [state |-> "pending", ok |-> FALSE, err |-> NoErr, ss |-> r.ss,
                   last_err |-> r.err, promises |-> [i \in 1 .. Len(as) |-> i]]

\* errors.pop() of the rejections of Promise::any: the crate does not say whether they
\* come in the order the promises were given or in the order they rejected
PromiseAnyErrors(errs) ==
    {errs[Len(errs)],
     CHOOSE e \in {errs[j] : j \in 1 .. Len(errs)} :
        \A j \in 1 .. Len(errs) : errs[j][3] <= e[3]}

\* the queue q without the promise of backend i
Without(q, i) == SelectSeq(q, LAMBDA j : j # i)

\* a future that keeps the read guard for as long as it is pending
ReadGuards_Held(r) == IF r.state = "pending" THEN 1 ELSE 0
\* the read guards on the backend lists that are alive when get_async, or an
\* AsyncStore::put_encrypted, has returned r: the guard is a local of the function, dropped
\* by drop(guard) before the promise is made and by the return on every other path
ReadGuards(r) == 0

InitMixed ==
    /\ overflow_checks = FALSE
    /\ kind = "default"
    /\ store = EmptyStore
    /\ root = EmptyNode
    /\ last = NoOp
    /\ ops = 0
    /\ stores \in StoreLists
    /\ async_stores \in StoreLists
    /\ call = NoCall
    /\ conv = NoConv

Begin(op, h) ==
    [NoCall EXCEPT !.op = op, !.hash = h, !.before = <<stores, async_stores>>]

GetResult(c, r) ==
    [c EXCEPT !.ok = r.ok, !.err = r.err, !.from = r.from, !.consulted = r.consulted,
              !.errs = r.errs]

\* Store::get(&mixed, h)
GetSyncAct(h) ==
    /\ ops < MaxOps
    /\ call.state = "done"
    /\ call' = GetResult(Begin("get", h), get_sync(stores, h))
    /\ ops' = ops + 1
    /\ UNCHANGED <<tree, conv, stores, async_stores>>

\* Store::get(&combined, h), the CombinedStore holding the sync backends
CombinedGetAct(h) ==
    /\ ops < MaxOps
    /\ call.state = "done"
    /\ call' = GetResult(Begin("combined_get", h), CombinedStore_get(stores, h))
    /\ ops' = ops + 1
    /\ UNCHANGED <<tree, conv, stores, async_stores>>

\* AsyncStore::get(&mixed, h): the promise is made
GetAsyncAct(h) ==
    /\ ops < MaxOps
    /\ call.state = "done"
    /\ LET g == get_async(stores, async_stores, h)
       IN  call' = [GetResult(Begin("get_async", h), g.r) EXCEPT
                       !.state = g.state, !.last_err = g.last_err, !.promises = g.promises,
                       !.err = NoErr, !.guards = ReadGuards(g)]
    /\ ops' = ops + 1
    /\ UNCHANGED <<tree, conv, stores, async_stores>>

\* the promise of AsyncStore::get is polled
GetAsyncPollAct(ready) ==
    /\ call.op = "get_async"
    /\ call.state = "pending"
    /\ LET p == GetAsync_poll(call.promises, ready, async_stores, call.hash, 1,
                              call.last_err, <<>>, call.consulted, call.errs)
       IN  call' = [call EXCEPT !.state = p.state, !.ok = p.ok, !.err = p.err,
                                !.from = p.from, !.last_err = p.last_err,
                                !.promises = p.promises, !.consulted = p.consulted,
                                !.errs = p.errs]
    /\ UNCHANGED <<tree, conv, ops, stores, async_stores>>

\* Store::put_encrypted(&mixed, chunk), write_to_all
PutEncryptedSyncAct(h) ==
    /\ ops < MaxOps
    /\ call.state = "done"
    /\ LET r == MixedStore_put_encrypted(stores, h)
       IN  /\ stores' = r.ss
           /\ call' = [Begin("put_encrypted", h) EXCEPT !.ok = r.ok, !.err = r.err]
    /\ ops' = ops + 1
    /\ UNCHANGED <<tree, conv, async_stores>>

\* AsyncStore::put_encrypted(&mixed, chunk), write_to_all: the promise is made
PutEncryptedAsyncAct(h) ==
    /\ ops < MaxOps
    /\ call.state = "done"
    /\ LET r == AsyncStore_put_encrypted(stores, async_stores, h)
       IN  /\ stores' = r.ss
           /\ call' = [Begin("async_put_encrypted", h) EXCEPT
                          !.state = r.state, !.ok = r.ok, !.err = r.err,
                          !.promises = r.promises, !.guards = ReadGuards(r)]
    /\ ops' = ops + 1
    /\ UNCHANGED <<tree, conv, async_stores>>

\* the put_encrypted of async backend i completes; Promise::all rejects with the first
\* rejection and resolves when every promise has resolved
PutSettleAct(i) ==
    /\ call.op = "async_put_encrypted"
    /\ \E j \in 1 .. Len(call.promises) : call.promises[j] = i
    /\ async_stores' = [async_stores EXCEPT ![i] = DynStore_put_encrypted(@, call.hash)]
    /\ LET rest == Without(call.promises, i)
       IN  call' = IF call.state = "done" THEN [call EXCEPT !.promises = rest]
                   ELSE IF ~async_stores[i].accepts
                   THEN [call EXCEPT !.promises = rest, !.state = "done", !.ok = FALSE,
                                     !.err = Rejected("async", i)]
                   ELSE [call EXCEPT !.promises = rest,
                                     !.state = IF rest = <<>> THEN "done" ELSE "pending"]
    /\ UNCHANGED <<tree, conv, ops, stores>>

\* Store::put_encrypted(&mixed, chunk), write_to_one
PutOneSyncAct(h) ==
    /\ ops < MaxOps
    /\ call.state = "done"
    /\ LET r == put_encrypted_to_one(stores, h)
       IN  /\ stores' = r.ss
           /\ call' = [Begin("put_encrypted_one", h) EXCEPT !.ok = r.ok, !.err = r.err]
    /\ ops' = ops + 1
    /\ UNCHANGED <<tree, conv, async_stores>>

\* AsyncStore::put_encrypted(&mixed, chunk), write_to_one: the promise is made
PutOneAsyncAct(h) ==
    /\ ops < MaxOps
    /\ call.state = "done"
    /\ LET r == AsyncStore_put_encrypted_to_one(stores, async_stores, h)
       IN  /\ stores' = r.ss
           /\ call' = [Begin("async_put_encrypted_one", h) EXCEPT
                          !.state = r.state, !.ok = r.ok, !.err = r.err,
                          !.last_err = r.last_err, !.promises = r.promises,
                          !.guards = ReadGuards(r)]
    /\ ops' = ops + 1
    /\ UNCHANGED <<tree, conv, async_stores>>

\* the put_encrypted of async backend i completes; Promise::any resolves with the first
\* success and rejects, when every promise has rejected, with the last of the errors
PutOneSettleAct(i) ==
    /\ call.op = "async_put_encrypted_one"
    /\ \E j \in 1 .. Len(call.promises) : call.promises[j] = i
    /\ async_stores' = [async_stores EXCEPT ![i] = DynStore_put_encrypted(@, call.hash)]
    /\ LET rest == Without(call.promises, i)
           errs == Append(call.errs, Rejected("async", i))
       IN  IF call.state = "done" THEN call' = [call EXCEPT !.promises = rest]
           ELSE IF async_stores[i].accepts
           THEN call' = [call EXCEPT !.promises = rest, !.state = "done", !.ok = TRUE,
                                     !.from = <<"async", i>>]
           ELSE IF rest # <<>>
           THEN call' = [call EXCEPT !.promises = rest, !.errs = errs]
           ELSE \E e \in PromiseAnyErrors(errs) :
                   call' = [call EXCEPT !.promises = rest, !.errs = errs, !.state = "done",
                                        !.ok = FALSE, !.err = e]
    /\ UNCHANGED <<tree, conv, ops, stores>>

\* MixedStore::push_sync(b): write() is granted when no read guard is alive
PushSyncAct(b) ==
    /\ call.guards = 0
    /\ Len(stores) < MaxStores
    /\ stores' = Append(stores, b)
    /\ UNCHANGED <<tree, conv, ops, async_stores, call>>

\* MixedStore::push_async(b): write() is granted when no read guard is alive
PushAsyncAct(b) ==
    /\ call.guards = 0
    /\ Len(async_stores) < MaxStores
    /\ async_stores' = Append(async_stores, b)
    /\ UNCHANGED <<tree, conv, ops, stores, call>>

NextMixed ==
    \/ \E h \in Hashes : GetSyncAct(h)
    \/ \E h \in Hashes : CombinedGetAct(h)
    \/ \E h \in Hashes : GetAsyncAct(h)
    \/ \E ready \in SUBSET (1 .. MaxStores) : GetAsyncPollAct(ready)
    \/ \E h \in Hashes : PutEncryptedSyncAct(h)
    \/ \E h \in Hashes : PutEncryptedAsyncAct(h)
    \/ \E i \in 1 .. MaxStores : PutSettleAct(i)
    \/ \E h \in Hashes : PutOneSyncAct(h)
    \/ \E h \in Hashes : PutOneAsyncAct(h)
    \/ \E i \in 1 .. MaxStores : PutOneSettleAct(i)

SpecMixed == InitMixed /\ [][NextMixed]_vars

\* AsyncStore::get and the polls of its promise
NextLive ==
    \/ \E h \in Hashes : GetAsyncAct(h)
    \/ \E ready \in SUBSET (1 .. MaxStores) : GetAsyncPollAct(ready)

\* every backend promise completes at some poll, and the task that awaits the promise of
\* AsyncStore::get is polled again whenever a backend promise wakes it: a poll that finds
\* a backend promise Ready, or no promise at all, is not put off for ever
SpecLive ==
    /\ InitMixed
    /\ [][NextLive]_vars
    /\ WF_vars(\E ready \in SUBSET (1 .. MaxStores) : GetAsyncPollAct(ready))

\* MixedStore::default(): no backend yet
InitLock ==
    /\ overflow_checks = FALSE
    /\ kind = "default"
    /\ store = EmptyStore
    /\ root = EmptyNode
    /\ last = NoOp
    /\ ops = 0
    /\ stores = <<>>
    /\ async_stores = <<>>
    /\ call = NoCall
    /\ conv = NoConv

\* the backends pushed: an empty one that rejects every chunk, and one that holds a chunk
\* and accepts
PushInputs == {[has |-> {}, accepts |-> FALSE], [has |-> {1}, accepts |-> TRUE]}

\* the calls that make a promise, its polls and settlements, and the tasks that push backends
NextLock ==
    \/ \E h \in Hashes : GetAsyncAct(h)
    \/ \E ready \in SUBSET (1 .. MaxStores) : GetAsyncPollAct(ready)
    \/ \E h \in Hashes : PutEncryptedAsyncAct(h)
    \/ \E i \in 1 .. MaxStores : PutSettleAct(i)
    \/ \E h \in Hashes : PutOneAsyncAct(h)
    \/ \E i \in 1 .. MaxStores : PutOneSettleAct(i)
    \/ \E b \in PushInputs : PushSyncAct(b)
    \/ \E b \in PushInputs : PushAsyncAct(b)

SpecLock == InitLock /\ [][NextLock]_vars

\* ------------------------------------------------------------ the text of Hkeys
MaxConv == 5
Digests == {1, 2}

\* a leaf of one part
Leaf(h, k) == new(0, 100, <<Part(0, 100, Encrypted(h, k))>>)

ConvHkeys ==
    {Direct(h) : h \in Digests}
        \cup {Encrypted(h, k) : h, k \in Digests}
        \cup {ListRef(h, k) : h, k \in Digests}
        \cup {LongHkey(h, k) : h, k \in Digests}
        \cup {Raw(Blob(1, n)) : n \in {0, 1, 46, 47, 95}}
        \cup {Base64(Base64Encode(Blob(1, n))) : n \in {0, 1, 47}}
        \cup {List(<<>>), List(<<Raw(Blob(1, 3))>>), List(<<Direct(1), Encrypted(1, 2)>>),
              List(<<List(<<ListRef(2, 1)>>), Raw(Blob(1, 1))>>),
              LongHkeyExpanded(EmptyNode), LongHkeyExpanded(Leaf(1, 2))}

\* n characters of base64 text
B64Text(n) == <<<<B64Src, Blob(1, (3 * n) \div 4), n>>>>

ConvTexts ==
    {<<>>, Ch(CharLBracket), Ch(CharLBrace), Ch(CharB), Ch(CharD), Blob(1, 1),
     Ch(CharLBracket) \o Ch(CharRBracket),
     Ch(CharLBracket) \o Ch(CharB),
     Ch(CharLBracket) \o HashText(1) \o Ch(CharComma) \o Ch(CharRBracket),
     Ch(CharLBracket) \o B64Text(HASH_SIZE - 2) \o Ch(CharRBracket),
     Ch(CharLBracket) \o B64Text(DOUBLE_HASH_SIZE - 2) \o Ch(CharRBracket),
     Ch(CharLBrace) \o NumText(0) \o Ch(CharSemi) \o NumText(0) \o Ch(CharSemi) \o Ch(CharRBrace),
     Ch(CharLBrace) \o NumText(0) \o Ch(CharRBrace),
     Ch(CharLBrace) \o B64Text(HASH_SIZE - 2) \o Ch(CharRBrace),
     NodeToString(Leaf(1, 2)),
     HashText(1), HashText(1) \o HashText(2),
     Ch(CharD) \o HashText(1), Ch(CharE) \o HashText(1) \o HashText(2),
     Ch(CharL) \o HashText(2) \o HashText(1),
     Ch(CharD) \o B64Text(HASH_SIZE), Ch(CharE) \o B64Text(DOUBLE_HASH_SIZE),
     Ch(CharD) \o B64Text(HASH_SIZE - 1), Ch(CharE) \o B64Text(DOUBLE_HASH_SIZE - 1),
     B64Text(4), B64Text(HASH_SIZE), B64Text(DOUBLE_HASH_SIZE),
     Blob(1, HASH_SIZE), Blob(1, HASH_SIZE_PREFIXED), Blob(1, DOUBLE_HASH_SIZE)}

InitText ==
    /\ overflow_checks = FALSE
    /\ kind = "default"
    /\ store = EmptyStore
    /\ root = EmptyNode
    /\ last = NoOp
    /\ ops = 0
    /\ stores = <<>>
    /\ async_stores = <<>>
    /\ call = NoCall
    /\ \/ \E x \in ConvHkeys :
             conv = [NoConv EXCEPT !.from = "hkey", !.hkeys = <<x>>, !.turn = "format"]
       \/ \E t \in ConvTexts :
             conv = [NoConv EXCEPT !.from = "bytes", !.texts = <<t>>, !.turn = "parse"]

\* hkey.to_string() of the Hkey of the round
FormatAct ==
    /\ conv.turn = "format"
    /\ Len(conv.hkeys) + Len(conv.texts) < MaxConv
    /\ conv' = [conv EXCEPT !.texts = Append(@, HkeyToString(conv.hkeys[Len(conv.hkeys)])),
                            !.turn = "parse"]
    /\ UNCHANGED <<tree, ops, mixed>>

\* Hkey::parse returned r
ParseDone(r) ==
    conv' = IF r.ok THEN [conv EXCEPT !.hkeys = Append(@, r.val), !.turn = "format"]
            ELSE [conv EXCEPT !.turn = "stop", !.err = r.err]

\* Hkey::parse(text) of the text of the round
ParseAct ==
    /\ conv.turn = "parse"
    /\ Len(conv.hkeys) + Len(conv.texts) < MaxConv
    /\ ParseDone(parse(conv.texts[Len(conv.texts)]))
    /\ UNCHANGED <<tree, ops, mixed>>

\* Hkey::try_parse(bytes) of the bytes the rounds began with
TryParseAct ==
    /\ conv.from = "bytes"
    /\ conv.tried.err = "none"
    /\ conv' = [conv EXCEPT !.tried = try_parse(conv.texts[1])]
    /\ UNCHANGED <<tree, ops, mixed>>

\* compact returned r
CompactDone(r) ==
    /\ store' = r.st
    /\ conv' = [conv EXCEPT !.bin = [ok |-> r.ok, err |-> r.err, val |-> r.val]]

\* hkey.compact(store) of the Hkey the rounds began with
CompactAct ==
    /\ conv.from = "hkey"
    /\ conv.bin.err = "none"
    /\ CompactDone(compact(kind, store, conv.hkeys[1]))
    /\ UNCHANGED <<overflow_checks, kind, root, last, ops, mixed>>

\* Hkey::from_compact of the bytes compact returned
FromCompactAct ==
    /\ conv.bin.ok
    /\ conv.back.err = "none"
    /\ conv' = [conv EXCEPT !.back = from_compact(conv.bin.val)]
    /\ UNCHANGED <<tree, ops, mixed>>

NextText ==
    \/ FormatAct
    \/ ParseAct
    \/ TryParseAct
    \/ CompactAct
    \/ FromCompactAct

SpecText == InitText /\ [][NextText]_vars

\* ------------------------------------------------------------ chains of list references
\* the longest chain of nested list references built
MaxChain == 66

\* an Hkey that holds its data inline, over an empty store
InitChain ==
    /\ overflow_checks = FALSE
    /\ kind = "default"
    /\ store = EmptyStore
    /\ root = EmptyNode
    /\ \E b \in {Blob(1, 10), Blob(2, MAX_SIZE_RAW)} : last = [NoOp EXCEPT !.hkey = Raw(b)]
    /\ ops = 0
    /\ stores = <<>>
    /\ async_stores = <<>>
    /\ call = NoCall
    /\ conv = NoConv

\* Hkey::List(vec![hkey]).shrink(store) returned r: the list reference is the Hkey from now on
WrapDone(r) ==
    /\ r.ok
    /\ store' = r.st
    /\ last' = [last EXCEPT !.op = "wrap", !.hkey = r.val, !.ok = TRUE, !.err = "",
                            !.val = <<>>]

\* Hkey::List(vec![hkey]).shrink(store)
WrapAct ==
    /\ ops < MaxChain
    /\ last.op \in {"none", "wrap"}
    /\ WrapDone(Hkey_shrink(kind, store, List(<<last.hkey>>)))
    /\ ops' = ops + 1
    /\ UNCHANGED <<overflow_checks, kind, root, mixed, conv>>

\* Hkey::resolve_list_ref up to its call of resolve: the Hkey that the stored list names
ListRefTarget(s, hk) ==
    Bind(resolve_encrypted(s, hk.hash, hk.key), LAMBDA list_bytes :
        IF ~list_bytes.ok THEN PErr(list_bytes.err) ELSE parse(list_bytes.val))

\* hkey.resolve(store) is entered: hkey is the Hkey the recursion stands at, start counts
\* the list references followed so far
ResolveBeginAct ==
    /\ last.op = "wrap"
    /\ last' = [last EXCEPT !.op = "resolving", !.start = 0]
    /\ UNCHANGED <<overflow_checks, kind, store, root, ops, mixed, conv>>

\* the recursion stood at a ListRef and r is what the stored list names: resolve fails with
\* the error of r, or goes on in the named Hkey, for a list of one item in that item
DerefDone(r) ==
    last' = IF ~r.ok THEN [last EXCEPT !.op = "resolved", !.ok = FALSE, !.err = r.err]
            ELSE [last EXCEPT !.start = @ + 1,
                              !.hkey = IF r.val.tag = "List" /\ Len(r.val.items) = 1
                                       THEN r.val.items[1] ELSE r.val]

\* one level of the recursion resolve -> resolve_list_ref -> resolve (-> resolve_list -> resolve)
DerefAct ==
    /\ last.op = "resolving"
    /\ last.hkey.tag = "ListRef"
    /\ DerefDone(ListRefTarget(store, last.hkey))
    /\ UNCHANGED <<overflow_checks, kind, store, root, ops, mixed, conv>>

\* the innermost call returned r, and every call above it returns the same
ResolveEndDone(r) ==
    last' = [last EXCEPT !.op = "resolved", !.ok = r.ok, !.err = r.err,
                         !.val = IF r.ok THEN r.val ELSE <<>>]

\* the recursion reaches an Hkey that is no list reference
ResolveEndAct ==
    /\ last.op = "resolving"
    /\ last.hkey.tag # "ListRef"
    /\ ResolveEndDone(resolve(store, last.hkey, MaxResolveDepth))
    /\ UNCHANGED <<overflow_checks, kind, store, root, ops, mixed, conv>>

NextChain ==
    \/ WrapAct
    \/ ResolveBeginAct
    \/ DerefAct
    \/ ResolveEndAct

SpecChain == InitChain /\ [][NextChain]_vars

\* ------------------------------------------------------------ claims
Resolve(hk) == resolve(store, hk, MaxResolveDepth)
NodeResolve(node) == node_resolve(store, node, MaxResolveDepth)

\* b with the w bytes from start overwritten by d[0..w), extended when start + w > len(b)
Splice(b, d, start, w) ==
    Cat(Cat(Slice(b, 0, start), Slice(d, 0, w)), Slice(b, start + w, BLen(b)))

\* contiguous parts covering [0, size)
WellFormed(node) ==
    /\ (node.parts = <<>>) = (node.size = 0)
    /\ node.parts # <<>> =>
        /\ node.parts[1].start = 0
        /\ node.parts[Len(node.parts)].end = node.size
        /\ \A i \in 1..(Len(node.parts) - 1) : node.parts[i].end = node.parts[i + 1].start
        /\ \A i \in 1..Len(node.parts) : node.parts[i].start < node.parts[i].end

\* C1: every put(b) returns an Hkey that resolves to exactly b, on each triage path
\* (Raw, Direct, Encrypted, LongHkey built by from_blob + shrink).
C1_PutResolves ==
    last.op = "put" =>
        /\ last.ok
        /\ Resolve(last.hkey).ok
        /\ Resolve(last.hkey).val = last.data

\* the width of the write of the last update
UpdateWidth == Min(BLen(last.data), last.end - last.start)

\* the last update spliced its data into the node it was applied to
UpdateSpliced ==
    /\ last.ok
    /\ root.size = Max(last.self.size, last.start + UpdateWidth)
    /\ NodeResolve(root).ok
    /\ NodeResolve(root).val
         = Splice(NodeResolve(last.self).val, last.data, last.start, UpdateWidth)

\* C2: update of a depth-0 node with r.end <= LHKEY_LEVEL_MAX_LENGTH (update_flat) returns
\* a node of size max(size(h), r.start + w) that resolves to resolve(h) with the bytes
\* [r.start, r.start + w) overwritten by d[0..w), in every leaf case.
C2_UpdateFlatSplices ==
    (/\ last.op = "update"
     /\ last.self.depth = 0
     /\ last.end <= LHKEY_LEVEL_MAX_LENGTH
     /\ WellFormed(last.self)
     /\ last.start <= last.self.size) => UpdateSpliced

\* C3: an update whose resulting depth is >= 1 (h.depth >= 1 or r.end >
\* LHKEY_LEVEL_MAX_LENGTH) returns a node that resolves to splice(resolve(h), d, r).
C3_UpdateDeepSplices ==
    (/\ last.op = "update"
     /\ (last.self.depth >= 1 \/ last.start + UpdateWidth > LHKEY_LEVEL_MAX_LENGTH)
     /\ WellFormed(last.self)
     /\ last.start <= last.self.size) => UpdateSpliced

\* the parts of the node of the last resolve_slice that meet its range
Meets(p) == ~(p.end <= last.start \/ p.start >= last.end)

\* what the claim says the slice is: every part that meets the range, asked for its
\* local range, in part-index order
RECURSIVE LocalSlices(_)
LocalSlices(i) ==
    IF i > Len(last.self.parts) THEN <<>>
    ELSE LET p == last.self.parts[i]
         IN  IF Meets(p)
             THEN Cat(resolve_slice(store, p.hkey, Max(last.start, p.start) - p.start,
                                    Min(last.end, p.end) - p.start, MaxResolveDepth).val,
                      LocalSlices(i + 1))
             ELSE LocalSlices(i + 1)

SliceInRange ==
    /\ last.op = "resolve_slice"
    /\ WellFormed(last.self)
    /\ last.start <= last.end
    /\ last.end <= last.self.size

\* C4: for a well-formed node h and a range r inside [0, size(h)), resolve_slice(h, r)
\* is resolve(h)[r]: the parts that meet r are asked for their local ranges and
\* concatenated in part order, and the parts that do not meet r are not fetched.
C4_SliceIsSliceOfResolve ==
    SliceInRange =>
        /\ last.ok
        /\ NodeResolve(last.self).ok
        /\ last.val = Slice(NodeResolve(last.self).val, last.start, last.end)
        /\ last.val = LocalSlices(1)
        /\ \A i \in 1..Len(last.self.parts) :
              (/\ ~Meets(last.self.parts[i])
               /\ \A j \in 1..Len(last.self.parts) :
                     Meets(last.self.parts[j])
                        => last.self.parts[j].hkey.hash # last.self.parts[i].hkey.hash)
                 => last.self.parts[i].hkey.hash \notin last.fetched

\* a slice that crosses a part boundary of a node whose other parts were left alone
C4_Witness ==
    /\ SliceInRange
    /\ last.ok
    /\ \E i, j \in 1..Len(last.self.parts) :
          /\ i # j
          /\ Meets(last.self.parts[i])
          /\ Meets(last.self.parts[j])
          /\ last.self.parts[i].start < last.start
    /\ \E i \in 1..Len(last.self.parts) : ~Meets(last.self.parts[i])
    /\ last.fetched # {}

\* C5: the store only grows: a hash that maps to a chunk maps to the same chunk in
\* every later state, so the Hkey of the last operation and the node that resolved
\* before a step resolve to the same bytes after it.
C5_StoreOnlyGrows ==
    [][/\ \A h \in DOMAIN store.map : h \in DOMAIN store'.map /\ store'.map[h] = store.map[h]
       /\ Resolve(last.hkey).ok =>
            resolve(store', last.hkey, MaxResolveDepth) = Resolve(last.hkey)
       /\ NodeResolve(root).ok =>
            node_resolve(store', root, MaxResolveDepth) = NodeResolve(root)]_vars

\* an update has stored new leaves beside the ones the store held before it
C5_Witness ==
    /\ last.op = "update"
    /\ last.ok
    /\ DOMAIN last.before # {}
    /\ DOMAIN last.before # DOMAIN store.map
    /\ \A h \in DOMAIN last.before : h \in DOMAIN store.map /\ store.map[h] = last.before[h]
    /\ NodeResolve(last.self).ok

\* C6: put(b); put(b) returns equal Hkeys and the second put leaves the map from hash
\* to chunk as the first left it; put_encrypted of a chunk whose hash is present
\* leaves the map as it is.
C6_PutTwice ==
    [][/\ (/\ last.op = "put"
           /\ last'.op = "put"
           /\ ops' = ops + 1
           /\ last'.data = last.data)
            => (last'.ok = last.ok /\ last'.hkey = last.hkey /\ store'.map = store.map)
       /\ (/\ last'.op = "put_encrypted"
           /\ ops' = ops + 1
           /\ IndexOf(store.dg, last'.data) \in DOMAIN store.map)
            => store'.map = store.map]_vars

\* the same bytes were put twice and the store holds their leaves
C6_Witness ==
    /\ last.op = "put"
    /\ last.ok
    /\ ops = 2
    /\ last.before = store.map
    /\ DOMAIN store.map # {}
    /\ last.hkey.tag \in {"Encrypted", "Direct", "LongHkey"}

\* the variant the triage of put chooses for b
TriageTag(b) ==
    IF BLen(b) <= MAX_SIZE_RAW THEN "Raw"
    ELSE IF BLen(b) <= MAX_ENCRYPTED_SIZE /\ validate(b) THEN "Direct"
    ELSE IF BLen(b) <= MAX_DECRYPTED_SIZE THEN "Encrypted"
    ELSE "LongHkey"

\* C7: put(b) on every store, the in-memory store included, chooses the variant by the
\* first matching rule: Raw(b), Direct(hash of b), Encrypted(h, k), else the LongHkey.
C7_PutTriage ==
    (last.op = "put" /\ last.ok) =>
        /\ last.hkey.tag = TriageTag(last.data)
        /\ last.hkey.tag = "Raw" => last.hkey.data = last.data
        /\ last.hkey.tag = "Direct" =>
              /\ last.hkey.hash = IndexOf(store.dg, last.data)
              /\ last.hkey.hash \in DOMAIN store.map
              /\ store.map[last.hkey.hash] = last.data
        /\ last.hkey.tag = "Encrypted" =>
              /\ last.hkey.hash \in DOMAIN store.map
              /\ decrypt(store.dg, store.map[last.hkey.hash], last.hkey.key).val = last.data

Holds(ss, h) == {i \in 1 .. Len(ss) : h \in ss[i].has}
First(S) == CHOOSE i \in S : \A j \in S : i <= j
Done == call.state = "done"

\* C8: a composite store's get (MixedStore::get_sync, CombinedStore::get) consults the
\* sync backends in declaration order and returns the chunk of the first backend that
\* holds the hash, consulting no later backend; when the first of two backends fails
\* and the second holds the hash, the second backend's chunk is returned.
C8_FirstSyncBackend ==
    call.op \in {"get", "combined_get"} =>
        LET hits == Holds(stores, call.hash)
        IN  IF hits = {}
            THEN /\ ~call.ok
                 /\ call.consulted = [i \in 1 .. Len(stores) |-> <<"sync", i>>]
            ELSE /\ call.ok
                 /\ call.from = <<"sync", First(hits)>>
                 /\ call.consulted = [i \in 1 .. First(hits) |-> <<"sync", i>>]

C8_Witness ==
    /\ call.op = "get"
    /\ Len(stores) = 2
    /\ call.hash \notin stores[1].has
    /\ call.ok
    /\ call.from = <<"sync", 2>>

\* C9 as stated: a MixedStore get, through either interface, finds a chunk that only
\* an async backend holds: it fails only when no backend of either kind holds the hash.
C9_GetRacesAsync ==
    (call.op \in {"get", "get_async"} /\ Done /\ ~call.ok) =>
        /\ Holds(stores, call.hash) = {}
        /\ Holds(async_stores, call.hash) = {}

\* C9, amended: through AsyncStore::get, when every sync backend fails (or there is
\* none) every async backend is raced and the first async success seen is returned, so
\* the call fails only if no backend holds the hash, with the most recent error met, or
\* no_stores when no backend gave one; Store::get consults the sync backends only and
\* fails with the last sync error, or no_stores without sync backends.
C9_AsyncGetRacesAsync ==
    /\ (call.op = "get_async" /\ Done /\ call.ok) =>
          /\ call.hash \in (IF call.from[1] = "sync" THEN stores ELSE async_stores)[call.from[2]].has
          /\ call.from[1] = "async" => Holds(stores, call.hash) = {}
          /\ call.from[1] = "sync" => \A i \in 1 .. Len(call.consulted) : call.consulted[i][1] = "sync"
    /\ (call.op = "get_async" /\ Done /\ ~call.ok) =>
          /\ Holds(stores, call.hash) = {}
          /\ Holds(async_stores, call.hash) = {}
          /\ Len(call.consulted) = Len(stores) + Len(async_stores)
          /\ call.err = IF call.errs = <<>> THEN no_stores ELSE call.errs[Len(call.errs)]
    /\ (call.op = "get_async" /\ ~Done) =>
          /\ Holds(stores, call.hash) = {}
          /\ call.promises # <<>> \/ call.consulted = [i \in 1 .. Len(stores) |-> <<"sync", i>>]
    /\ call.op = "get" =>
          /\ call.ok <=> Holds(stores, call.hash) # {}
          /\ \A i \in 1 .. Len(call.consulted) : call.consulted[i][1] = "sync"
          /\ ~call.ok => call.err = IF stores = <<>> THEN no_stores
                                    ELSE NotFound("sync", Len(stores))

C9_Witness ==
    /\ call.op = "get_async"
    /\ Done
    /\ call.ok
    /\ call.from[1] = "async"
    /\ Len(stores) >= 1

\* C10 as stated: under write_to_all a successful put_encrypted, through either
\* interface, leaves the chunk in every configured backend, sync and async.
C10_WriteToAll ==
    (call.op \in {"put_encrypted", "async_put_encrypted"} /\ Done /\ call.ok) =>
        /\ AllHold(stores, call.hash)
        /\ AllHold(async_stores, call.hash)

\* C10, amended: under write_to_all, AsyncStore::put_encrypted succeeds only if every
\* sync and every async backend accepted the chunk, every backend then holds it, and an
\* error from any backend makes it fail; Store::put_encrypted writes the sync backends
\* only: it succeeds only if there is a sync backend and every sync backend accepted,
\* the sync backends then hold the chunk, and the async backends are left as they were.
C10_AsyncWriteToAll ==
    /\ (call.op = "async_put_encrypted" /\ Done /\ call.ok) =>
          /\ Accepting(stores) /\ Accepting(async_stores)
          /\ AllHold(stores, call.hash) /\ AllHold(async_stores, call.hash)
          /\ Len(stores) + Len(async_stores) >= 1
    /\ (call.op = "async_put_encrypted" /\ Done /\ call.promises = <<>>
            /\ ~(Accepting(stores) /\ Accepting(async_stores))) => ~call.ok
    /\ call.op = "put_encrypted" =>
          /\ call.ok <=> (Len(stores) >= 1 /\ Accepting(stores))
          /\ call.ok => AllHold(stores, call.hash)
          /\ stores = <<>> => call.err = no_stores
          /\ async_stores = call.before[2]

C10_Witness ==
    /\ call.op = "async_put_encrypted"
    /\ Done
    /\ call.ok
    /\ Len(stores) >= 1
    /\ Len(async_stores) >= 1
    /\ ~AllHold(call.before[1], call.hash)
    /\ ~AllHold(call.before[2], call.hash)

\* the sync backends that accepted when the last call began
AcceptedBy(ss) == {i \in 1 .. Len(ss) : ss[i].accepts}
\* the last error of the sync backends ss, no_stores without one
LastSyncError(ss) == IF ss = <<>> THEN no_stores ELSE Rejected("sync", Len(ss))

\* C11: under write_to_one, put_encrypted tries the sync backends in declaration order
\* and returns at the first success: only the first accepting sync backend receives the
\* chunk, every later backend is left as it was; an async backend is written only if no
\* sync backend accepted, and when no backend accepted the last error is returned.
C11_WriteToOne ==
    call.op \in {"put_encrypted_one", "async_put_encrypted_one"} =>
        LET acc == AcceptedBy(call.before[1])
        IN  /\ acc # {} =>
                  /\ Done /\ call.ok
                  /\ stores = [call.before[1] EXCEPT
                                  ![First(acc)] = DynStore_put_encrypted(@, call.hash)]
                  /\ async_stores = call.before[2]
            /\ acc = {} => stores = call.before[1]
            /\ async_stores # call.before[2] =>
                  /\ acc = {}
                  /\ call.op = "async_put_encrypted_one"
            /\ (Done /\ call.ok /\ acc = {}) =>
                  /\ call.from[1] = "async"
                  /\ async_stores[call.from[2]].accepts
                  /\ call.hash \in async_stores[call.from[2]].has
            /\ (Done /\ ~call.ok) =>
                  /\ acc = {}
                  /\ call.op = "async_put_encrypted_one" => AcceptedBy(async_stores) = {}
                  /\ IF call.op = "put_encrypted_one" \/ async_stores = <<>>
                     THEN call.err = LastSyncError(call.before[1])
                     ELSE call.err \in PromiseAnyErrors(call.errs)

\* two accepting sync backends A then B that did not hold the chunk: only A was written
C11_Witness ==
    /\ call.op = "put_encrypted_one"
    /\ call.ok
    /\ Len(stores) = 2
    /\ Accepting(call.before[1])
    /\ ~AllHold(call.before[1], call.hash)
    /\ call.hash \in stores[1].has
    /\ call.hash \notin stores[2].has

\* the rounds began with the Hkey x = conv.hkeys[1]: conv.texts[i] is the text of
\* conv.hkeys[i] and conv.hkeys[i + 1] the parse of conv.texts[i]
FromHkey(tags) == conv.from = "hkey" /\ conv.hkeys[1].tag \in tags

\* C12: for every Direct(h), Encrypted(h, k) and ListRef(h, k), also with h = k,
\* parse(format(x)) = x and format(parse(format(x))) = format(x); the parse does not fail.
C12_HashFormsStable ==
    FromHkey({"Direct", "Encrypted", "ListRef"}) =>
        /\ conv.err = ""
        /\ Len(conv.texts) >= 1 =>
              conv.texts[1] =
                 (CASE conv.hkeys[1].tag = "Direct" -> <<>>
                    [] conv.hkeys[1].tag = "Encrypted" -> Ch(CharE)
                    [] conv.hkeys[1].tag = "ListRef" -> Ch(CharL))
                 \o HashText(conv.hkeys[1].hash)
                 \o (IF conv.hkeys[1].tag = "Direct" THEN <<>>
                     ELSE HashText(conv.hkeys[1].key))
        /\ \A i \in 2 .. Len(conv.hkeys) : conv.hkeys[i] = conv.hkeys[1]
        /\ \A i \in 2 .. Len(conv.texts) : conv.texts[i] = conv.texts[1]

\* Encrypted(h, h) was formatted, parsed and formatted again
C12_Witness ==
    /\ FromHkey({"Encrypted"})
    /\ conv.hkeys[1].hash = conv.hkeys[1].key
    /\ Len(conv.hkeys) >= 2
    /\ Len(conv.texts) >= 2

\* the canonical form of an Hkey: Raw(b) is Base64 of the canonical base64 of b, inside
\* a List as well
RECURSIVE Canonical(_)
Canonical(hk) ==
    CASE hk.tag = "Raw" -> Base64(Base64Encode(hk.data))
      [] hk.tag = "List" -> List([i \in 1..Len(hk.items) |-> Canonical(hk.items[i])])
      [] OTHER -> hk

RECURSIVE HasRaw(_)
HasRaw(hk) ==
    \/ hk.tag = "Raw"
    \/ hk.tag = "List" /\ \E i \in 1..Len(hk.items) : HasRaw(hk.items[i])

\* C13: for every Raw(b), also inside a List, parse(format(x)) is Base64(canonical base64
\* of b), and that result is a fixed point: every later parse returns the same Hkey and
\* every later format the same text.
C13_RawCanonicalizes ==
    conv.from = "hkey" /\ HasRaw(conv.hkeys[1]) =>
        /\ conv.err = ""
        /\ \A i \in 2 .. Len(conv.hkeys) : conv.hkeys[i] = Canonical(conv.hkeys[1])
        /\ \A i \in 3 .. Len(conv.texts) : conv.texts[i] = conv.texts[2]

C15_ParseTotal ==
    conv.from = "bytes" =>
        /\ conv.err = ""
        /\ conv.tried.err # "none" => conv.tried.err # "panic"
        /\ Len(conv.hkeys) >= 1 /\ conv.tried.err # "none" /\ ~conv.tried.ok =>
              conv.hkeys[1] = IF IsUtf8(conv.texts[1]) THEN Base64(conv.texts[1])
                              ELSE Raw(conv.texts[1])

\* try_parse with its rules in the order of the specification: the prefixes before
\* the lengths
TryParseByPrefix(bytes) ==
    IF bytes = <<>> THEN POk(Base64(<<>>))
    ELSE IF FirstIs(bytes, CharD) /\ BLen(bytes) = HASH_SIZE + 1
    THEN try_as_direct(Tail(bytes))
    ELSE IF FirstIs(bytes, CharE) /\ BLen(bytes) = 2 * HASH_SIZE + 1
    THEN try_as_encrypted(Tail(bytes))
    ELSE IF FirstIs(bytes, CharL) /\ BLen(bytes) = 2 * HASH_SIZE + 1
    THEN try_as_list_ref(Tail(bytes))
    ELSE IF FirstIs(bytes, CharLBracket) THEN try_as_list(bytes)
    ELSE IF FirstIs(bytes, CharLBrace) THEN try_as_long(bytes)
    ELSE IF BLen(bytes) = HASH_SIZE THEN try_as_direct(bytes)
    ELSE IF BLen(bytes) = 2 * HASH_SIZE THEN try_as_encrypted(bytes)
    ELSE POk(from_base64_slice(bytes))

\* C16: try_parse selects the variant by the first matching rule in this order: empty
\* input, 'D' / 'E' / 'L' with the prefixed lengths, first byte '[' (List), first byte
\* '{' (LongHkeyExpanded), then length HASH_SIZE (Direct), length 2 * HASH_SIZE
\* (Encrypted), otherwise Base64 or Raw; the '[' and '{' rules apply whatever the
\* length of the input is.
C16_PrefixBeforeLength ==
    conv.from = "bytes" /\ conv.tried.err # "none" =>
        conv.tried = TryParseByPrefix(conv.texts[1])

\* C17: for every range not contained in [0, size(h)), resolve_slice(h, range) fails
\* with RangeError; it neither returns a shorter byte string nor panics.  Here h is the
\* LongHkeyExpanded root.
C17_OutOfRangeFails ==
    last.op = "resolve_slice"
        /\ ~(0 <= last.start /\ last.start <= last.end /\ last.end <= last.self.size) =>
       ~last.ok /\ last.err = "RangeError"

\* the bytes of a list of inline children, one after the other
RECURSIVE Joined(_)
Joined(list) == IF list = <<>> THEN <<>> ELSE Cat(Head(list).data, Joined(Tail(list)))

\* C18: for every List(xs) and every range within the total resolved length,
\* resolve_slice(List(xs), range) is the concatenation of the children's resolutions
\* restricted to the range, and has exactly range.end - range.start bytes.
C18_ListSlice ==
    last.op = "list_slice" /\ last.start <= last.end
        /\ last.end <= BLen(Joined(last.hkey.items)) =>
       /\ last.ok
       /\ BLen(last.val) = last.end - last.start
       /\ last.val = Slice(Joined(last.hkey.items), last.start, last.end)

\* the end of the range of the last update, as update clips it to the data
UpdateEnd == Min(last.end, last.start + BLen(last.data))

\* C19: the depth of the node an update returns is at least the depth of the node it
\* was derived from, also when the range ends below the current size;
\* calculate_depth(min, end) never returns less than min.
C19_DepthMonotone ==
    last.op = "update" =>
        /\ calculate_depth(last.self.depth, UpdateEnd) >= last.self.depth
        /\ last.ok => root.depth >= last.self.depth

\* an update of a node of depth 1 that ends below the size of the node succeeded
C19_Witness ==
    /\ last.op = "update"
    /\ last.ok
    /\ last.self.depth >= 1
    /\ UpdateEnd < last.self.size
    /\ UpdateEnd <= LHKEY_LEVEL_MAX_LENGTH

\* C20: every node returned by from_blob or update has parts whose half-open ranges
\* are non-empty and contiguous from 0, with the end of the last part equal to the size
\* of the node; a node of size 0 has no parts.
C20_PartsCoverSize ==
    last.op \in {"from_blob", "update"} /\ last.ok => WellFormed(root)

\* the smallest depth d with size <= LHKEY_LEVEL_MAX_LENGTH * 16^d
MinDepth(size) ==
    CHOOSE d \in 0..8 :
        /\ size <= LHKEY_LEVEL_MAX_LENGTH * 16 ^ d
        /\ \A e \in 0..(d - 1) : size > LHKEY_LEVEL_MAX_LENGTH * 16 ^ e

\* the node and, through the store s, every node below it keep the fan-out of from_blob
\* (the reference to a child reads back from a stored node text as a ListRef)
RECURSIVE FanOut(_, _)
FanOut(s, node) ==
    /\ Len(node.parts) <= 16
    /\ node.depth = MinDepth(node.size)
    /\ \A i \in 1..Len(node.parts) :
          LET p == node.parts[i]
          IN  /\ p.end - p.start <= LHKEY_SEGMENT_MAX_LENGTH * 16 ^ node.depth
              /\ IF node.depth = 0
                 THEN p.hkey.tag \in {"Raw", "Direct", "Encrypted"}
                 ELSE /\ p.hkey.tag \in {"LongHkey", "ListRef"}
                      /\ Bind(expand(s, p.hkey.hash, p.hkey.key), LAMBDA child :
                            /\ child.ok
                            /\ child.val.size = p.end - p.start
                            /\ child.val.depth <= node.depth - 1
                            /\ FanOut(s, child.val))

\* C21: every node built by from_blob, at every level of the tree, has at most 16 parts
\* and the smallest depth d with size <= LHKEY_LEVEL_MAX_LENGTH * 16^d; at depth 0 each
\* part is a leaf of at most LHKEY_SEGMENT_MAX_LENGTH bytes, at depth d >= 1 each part
\* covers at most LHKEY_SEGMENT_MAX_LENGTH * 16^d bytes and references a stored child
\* node of depth at most d - 1.
C21_FanOut ==
    last.op = "from_blob" /\ last.ok => FanOut(store, root)

\* from_blob built a node of depth 1 or more
C21_Witness ==
    /\ last.op = "from_blob"
    /\ last.ok
    /\ root.depth >= 1
    /\ Len(root.parts) >= 2

\* the size of the node the last update built
UpdateSize == Max(UpdateEnd, last.self.size)

\* leaf i of the node before the last update has the range
\* [(i - 1) * 4096, min(i * 4096, new_size)) and is disjoint from the update range
DisjointLeaf(i) ==
    LET p == last.self.parts[i]
    IN  /\ p.start = (i - 1) * LHKEY_SEGMENT_MAX_LENGTH
        /\ p.end = Min(i * LHKEY_SEGMENT_MAX_LENGTH, UpdateSize)
        /\ p.start < p.end
        /\ UpdateEnd <= p.start \/ last.start >= p.end

\* C22: a depth-0 update leaves every leaf disjoint from the update range untouched:
\* when the existing part at that index already has the range
\* [i * 4096, min((i + 1) * 4096, new_size)), update_flat returns the identical
\* (range, Hkey) pair for it, and builds it without a fetch and without a store call
\* (it is built the same, with nothing stored, over a store that holds no chunk).
C22_DisjointLeavesKept ==
    last.op = "update" /\ last.ok /\ last.self.depth = 0 /\ root.depth = 0
        /\ last.start <= UpdateEnd =>
       \A i \in 1..Len(last.self.parts) :
          DisjointLeaf(i) =>
             /\ root.parts[i] = last.self.parts[i]
             /\ update_flat_part(kind, EmptyStore, last.self, last.data, last.start,
                                 UpdateEnd, UpdateSize, i - 1)
                   = Ok(EmptyStore, last.self.parts[i])

\* 9000..12000 was written into a node of 10000 bytes in three leaves
C22_Witness ==
    /\ last.op = "update"
    /\ last.ok
    /\ last.self.size = 10000
    /\ Len(last.self.parts) = 3
    /\ last.start = 9000
    /\ UpdateEnd = 12000
    /\ DisjointLeaf(1) /\ DisjointLeaf(2) /\ ~DisjointLeaf(3)
    /\ root.parts[2] = last.self.parts[2]
    /\ root.parts[3] # last.self.parts[3]

\* the last call is a write_to_all put_encrypted that returned and whose promises
\* have all settled
PutAllDone ==
    call.op \in {"put_encrypted", "async_put_encrypted"} /\ Done /\ call.promises = <<>>

\* C23 as stated: write_to_all put_encrypted, through either interface, fails with
\* no_stores exactly when both backend collections are empty, and succeeds when at
\* least one backend of either kind is configured and every backend accepts.
C23_NoStores ==
    PutAllDone =>
        /\ (~call.ok /\ call.err = no_stores)
              <=> (call.before[1] = <<>> /\ call.before[2] = <<>>)
        /\ (Len(call.before[1]) + Len(call.before[2]) >= 1
              /\ Accepting(call.before[1]) /\ Accepting(call.before[2])) => call.ok

\* C23, amended: through AsyncStore, write_to_all put_encrypted fails with no_stores
\* exactly when both collections are empty and succeeds when a backend of either kind
\* is configured and every backend accepts; through Store it fails with no_stores
\* exactly when the sync collection is empty, whatever the async collection holds, and
\* succeeds when a sync backend is configured and every sync backend accepts.
C23_NoStoresByInterface ==
    /\ (PutAllDone /\ call.op = "async_put_encrypted") =>
          /\ (~call.ok /\ call.err = no_stores)
                <=> (call.before[1] = <<>> /\ call.before[2] = <<>>)
          /\ (Len(call.before[1]) + Len(call.before[2]) >= 1
                /\ Accepting(call.before[1]) /\ Accepting(call.before[2])) => call.ok
    /\ (PutAllDone /\ call.op = "put_encrypted") =>
          /\ (~call.ok /\ call.err = no_stores) <=> call.before[1] = <<>>
          /\ (Len(call.before[1]) >= 1 /\ Accepting(call.before[1])) => call.ok

\* with async backends only, all accepting, the call through AsyncStore succeeded
\* after its promises settled
C23_Witness ==
    /\ PutAllDone
    /\ call.op = "async_put_encrypted"
    /\ call.before[1] = <<>>
    /\ Len(call.before[2]) >= 1
    /\ call.ok
    /\ AllHold(async_stores, call.hash)

\* what the sync pipeline returns for the call that the last, async, call made
SyncTwin ==
    IF last.op = "put_async" THEN Store_put("default", last.before, last.data)
    ELSE Hkey_shrink("default", last.before, LongHkeyExpanded(last.self))

\* C24: for the same input and the same store contents, the async pipeline (AsyncStore::put,
\* from_blob_async, shrink_async, shrink_or_not_async) returns the same Hkey as the sync
\* pipeline (Store::put, from_blob, shrink, shrink_or_not), the same variant with the
\* same hashes, and leaves the same chunks stored.
C24_AsyncTwin ==
    last.op \in {"put_async", "hkey_shrink_async"} =>
        /\ last.ok = SyncTwin.ok
        /\ last.ok => last.hkey = SyncTwin.val
        /\ store.map = SyncTwin.st.map

\* C25: one resolve follows at most 64 nested ListRef / LongHkey references; a resolve that
\* would need more (here: a chain of more than 64 list references, each stored list holding
\* the next reference) ends with a Format error instead of going deeper.
C25_DepthLimit ==
    last.op \in {"resolving", "resolved"} =>
        \/ last.start <= 64
        \/ last.op = "resolved" /\ ~last.ok /\ last.err = "FormatError"

\* the text "{0;0;}"
EmptyText ==
    Ch(CharLBrace) \o NumText(0) \o Ch(CharSemi) \o NumText(0) \o Ch(CharSemi) \o Ch(CharRBrace)

\* the index of the text formatted from hkeys[i], and of the Hkey parsed from texts[i]
FormattedAt(i) == IF conv.from = "hkey" THEN i ELSE i + 1
ParsedAt(i) == IF conv.from = "hkey" THEN i + 1 ELSE i

\* the empty node is formatted as "{0;0;}", and no expanded node with a comma before "}"
EmptyFormats ==
    \A i \in 1 .. Len(conv.hkeys) :
        (conv.hkeys[i].tag = "LongHkeyExpanded" /\ FormattedAt(i) <= Len(conv.texts)) =>
            LET t == conv.texts[FormattedAt(i)]
            IN  /\ conv.hkeys[i].node = EmptyNode => t = EmptyText
                /\ ~LastIs(SubSeq(t, 1, Len(t) - 1), CharComma)

\* "{0;0;}" is parsed as the empty node
EmptyParses ==
    /\ \A i \in 1 .. Len(conv.texts) :
           conv.texts[i] = EmptyText =>
              /\ (i = Len(conv.texts) /\ conv.turn = "stop") => conv.err = ""
              /\ ParsedAt(i) <= Len(conv.hkeys) =>
                    conv.hkeys[ParsedAt(i)] = LongHkeyExpanded(EmptyNode)
    /\ (conv.from = "bytes" /\ conv.texts[1] = EmptyText /\ conv.tried.err # "none") =>
           conv.tried = POk(LongHkeyExpanded(EmptyNode))

\* C26: the empty LongHkeyExpanded (depth 0, size 0, no parts) is formatted as "{0;0;}" and
\* "{0;0;}" is parsed as the empty LongHkeyExpanded; no expanded node is formatted with a
\* trailing comma.
C26_EmptyExpanded == EmptyFormats /\ EmptyParses

C28_EmptyInput ==
    (conv.from = "bytes" /\ conv.texts[1] = <<>>) =>
        /\ conv.tried.err # "none" => conv.tried.ok /\ HkeyToString(conv.tried.val) = <<>>
        /\ Len(conv.texts) >= 2 => conv.texts[2] = <<>>

\* C29: update terminates, with a node or an error, for every node, data and range, also
\* for a write that starts beyond the current size or that raises the depth of a smaller
\* tree: no call of update recurses without end.
C29_UpdateTerminates ==
    last.op = "update" => last.err # "StackOverflow"

\* the async backends whose promise is in the queue q
Queued(q) == {q[j] : j \in 1 .. Len(q)}

\* a poll of the promise of get_async: Pending only with a backend promise left and none
\* of the completed ones a success, Ready(Ok) from a backend that completed with the
\* chunk, Ready(Err) with the last error when no promise is left
PollStep ==
    (call.op = "get_async" /\ call.state = "pending" /\ call' # call) =>
        /\ call'.state = "pending" =>
              /\ call'.promises # <<>>
              /\ \A i \in Queued(call.promises) \ Queued(call'.promises) :
                    call.hash \notin async_stores[i].has
        /\ (call'.state = "done" /\ call'.ok) =>
              /\ call'.from[1] = "async"
              /\ call'.from[2] \in Queued(call.promises)
              /\ call.hash \in async_stores[call'.from[2]].has
        /\ (call'.state = "done" /\ ~call'.ok) =>
              /\ call'.promises = <<>>
              /\ \A i \in Queued(call.promises) : call.hash \notin async_stores[i].has
              /\ call'.err = IF call'.errs = <<>> THEN no_stores
                             ELSE call'.errs[Len(call'.errs)]

\* C30: if every async backend's get promise eventually completes, the promise of the
\* MixedStore async get eventually completes; a poll returns Pending only while a backend
\* promise is still pending, Ready(Ok) as soon as a backend promise has succeeded, and
\* Ready(Err(last error)) once no pending promise is left.
C30_GetAsyncCompletes ==
    /\ [][PollStep]_vars
    /\ (call.op = "get_async" /\ call.state = "pending") ~> (call.state = "done")

\* the first async backend failed at one poll and the second gave the chunk at a later one
C30_Witness ==
    /\ call.op = "get_async"
    /\ call.state = "done"
    /\ call.ok
    /\ call.from = <<"async", 2>>
    /\ \E j \in 1 .. Len(call.consulted) : call.consulted[j] = <<"async", 1>>

====
